---------------------------- MODULE Spec2Model ----------------------------
(***************************************************************************)
(* NHAssist: the monitor tick loop (nhassist.py, nhmon.py), the tmux frame *)
(* bridge (tmux.py) and the price identification engine (priceid.py,       *)
(* const.py), as a state machine.                                          *)
(*                                                                         *)
(* Python values are represented as follows.  A str is a TLA+ string       *)
(* (Len, SubSeq and \o act on strings as on Python strings).  A list is a  *)
(* sequence.  A dict is a function whose DOMAIN is the set of keys; the    *)
(* two dicts of const.py whose iteration order the code relies on          *)
(* (RANDOM_APPEARANCES, ABBREV_DICT) and the cost tables are sequences of  *)
(* records in source order.  None is NoneInt for an Optional[int] and ""   *)
(* for an Optional[str]; an Optional[bool] argument is one of the strings  *)
(* "None", "True", "False".                                                *)
(***************************************************************************)
EXTENDS Integers, Sequences, FiniteSets, TLC

NoneInt == -1

TOURIST_LOW_LEVEL ==
    {"Rambler", "Sightseer", "Excursionist", "Peregrinator", "Peregrinatrix", "Traveler"}

COST_TABLES ==
    [boots |-> <<
        [cost |-> 8, names |-> <<
            "elven boots", "kicking boots"
        >>],
        [cost |-> 30, names |-> <<
            "fumble boots", "levitation boots"
        >>],
        [cost |-> 50, names |-> <<
            "jumping boots", "speed boots", "water walking boots"
        >>]
     >>,
     cloak |-> <<
        [cost |-> 40, names |-> <<
            "leather cloak", "orcish cloak"
        >>],
        [cost |-> 50, names |-> <<
            "cloak of displacement", "cloak of protection"
        >>],
        [cost |-> 60, names |-> <<
            "cloak of invisibility", "cloak of magic resistance"
        >>]
     >>,
     helm |-> <<
        [cost |-> 10, names |-> <<
            "helmet"
        >>],
        [cost |-> 50, names |-> <<
            "helm of brilliance", "helm of opposite alignment", "helm of telepathy",
            "helm of caution"
        >>]
     >>,
     gloves |-> <<
        [cost |-> 8, names |-> <<
            "leather gloves"
        >>],
        [cost |-> 50, names |-> <<
            "gauntlets of dexterity", "gauntlets of fumbling", "gauntlets of power"
        >>]
     >>,
     scroll |-> <<
        [cost |-> 20, names |-> <<
            "scroll of identify"
        >>],
        [cost |-> 50, names |-> <<
            "scroll of light"
        >>],
        [cost |-> 60, names |-> <<
            "scroll of enchant weapon"
        >>],
        [cost |-> 80, names |-> <<
            "scroll of enchant armor", "scroll of remove curse"
        >>],
        [cost |-> 100, names |-> <<
            "scroll of confuse monster", "scroll of destroy armor", "scroll of fire",
            "scroll of food detection", "scroll of gold detection",
            "scroll of magic mapping", "scroll of scare monster",
            "scroll of teleportation"
        >>],
        [cost |-> 200, names |-> <<
            "scroll of amnesia", "scroll of create monster", "scroll of earth",
            "scroll of taming"
        >>],
        [cost |-> 300, names |-> <<
            "scroll of charging", "scroll of genocide", "scroll of punishment",
            "scroll of stinking cloud"
        >>]
     >>,
     potion |-> <<
        [cost |-> 20, names |-> <<
            "potion of healing"
        >>],
        [cost |-> 50, names |-> <<
            "potion of booze", "potion of fruit juice", "potion of see invisible",
            "potion of sickness"
        >>],
        [cost |-> 100, names |-> <<
            "potion of confusion", "potion of extra healing",
            "potion of hallucination", "potion of restore ability", "potion of sleeping"
        >>],
        [cost |-> 150, names |-> <<
            "potion of blindness", "potion of gain energy", "potion of invisibility",
            "potion of monster detection", "potion of object detection"
        >>],
        [cost |-> 200, names |-> <<
            "potion of enlightenment", "potion of full healing",
            "potion of levitation", "potion of polymorph", "potion of speed"
        >>],
        [cost |-> 250, names |-> <<
            "potion of acid", "potion of oil"
        >>],
        [cost |-> 300, names |-> <<
            "potion of gain ability", "potion of gain level", "potion of paralysis"
        >>]
     >>,
     ring |-> <<
        [cost |-> 100, names |-> <<
            "ring of adornment", "ring of hunger", "ring of protection",
            "ring of protection from shape changers", "ring of stealth",
            "ring of sustain ability", "ring of warning"
        >>],
        [cost |-> 150, names |-> <<
            "ring of aggravate monster", "ring of cold resistance",
            "ring of gain constitution", "ring of gain strength",
            "ring of increase accuracy", "ring of increase damage",
            "ring of invisibility", "ring of poison resistance",
            "ring of see invisible", "ring of shock resistance"
        >>],
        [cost |-> 200, names |-> <<
            "ring of fire resistance", "ring of free action", "ring of levitation",
            "ring of regeneration", "ring of searching", "ring of slow digestion",
            "ring of teleportation"
        >>],
        [cost |-> 300, names |-> <<
            "ring of conflict", "ring of polymorph", "ring of polymorph control",
            "ring of teleport control"
        >>]
     >>,
     wand |-> <<
        [cost |-> 100, names |-> <<
            "wand of light", "wand of nothing"
        >>],
        [cost |-> 150, names |-> <<
            "wand of digging", "wand of enlightenment", "wand of locking",
            "wand of magic missile", "wand of make invisible", "wand of opening",
            "wand of probing", "wand of secret door detection", "wand of slow monster",
            "wand of speed monster", "wand of striking", "wand of undead turning"
        >>],
        [cost |-> 175, names |-> <<
            "wand of cold", "wand of fire", "wand of lightning", "wand of sleep"
        >>],
        [cost |-> 200, names |-> <<
            "wand of cancellation", "wand of create monster", "wand of polymorph",
            "wand of teleportation"
        >>],
        [cost |-> 500, names |-> <<
            "wand of death", "wand of wishing"
        >>]
     >>,
     spellbook |-> <<
        [cost |-> 100, names |-> <<
            "spellbook of force bolt", "spellbook of protection",
            "spellbook of detect monsters", "spellbook of light", "spellbook of sleep",
            "spellbook of jumping", "spellbook of healing", "spellbook of knock"
        >>],
        [cost |-> 200, names |-> <<
            "spellbook of magic missile", "spellbook of drain life",
            "spellbook of create monster", "spellbook of detect food",
            "spellbook of confuse monster", "spellbook of slow monster",
            "spellbook of cure blindness", "spellbook of wizard lock",
            "spellbook of chain lightning"
        >>],
        [cost |-> 300, names |-> <<
            "spellbook of remove curse", "spellbook of clairvoyance",
            "spellbook of detect unseen", "spellbook of identify",
            "spellbook of cause fear", "spellbook of charm monster",
            "spellbook of haste self", "spellbook of cure sickness",
            "spellbook of extra healing", "spellbook of stone to flesh"
        >>],
        [cost |-> 400, names |-> <<
            "spellbook of cone of cold", "spellbook of fireball",
            "spellbook of detect treasure", "spellbook of invisibility",
            "spellbook of levitation", "spellbook of restore ability"
        >>],
        [cost |-> 500, names |-> <<
            "spellbook of magic mapping", "spellbook of dig"
        >>],
        [cost |-> 600, names |-> <<
            "spellbook of create familiar", "spellbook of turn undead",
            "spellbook of teleport away", "spellbook of polymorph"
        >>],
        [cost |-> 700, names |-> <<
            "spellbook of finger of death", "spellbook of cancellation"
        >>]
     >>]

ABBREV_DICT ==
    <<
        [name |-> "confusion", forms |-> <<"Confuse", "Confu", "Conf", "Cnf">>],
        [name |-> "extra healing", forms |-> <<"ExtraHeal", "XtraHeal", "ExHeal", "XHeal">>],
        [name |-> "hallucination", forms |-> <<"Hallucinate", "Hallucin", "Hallu", "Hal">>],
        [name |-> "restore ability", forms |-> <<"RestoreAbil", "RestAbil", "RstAbil", "RstAbl">>],
        [name |-> "sleeping", forms |-> <<"Sleeping", "Sleep", "Sleep", "Slp">>],
        [name |-> "blindness", forms |-> <<"Blindness", "Blindness", "Blind", "Blnd">>],
        [name |-> "gain energy", forms |-> <<"GainEnergy", "GainEnergy", "GainEn", "+Ener">>],
        [name |-> "invisibility", forms |-> <<"Invisibility", "Invisibility", "Invis", "Inv">>],
        [name |-> "monster detection", forms |-> <<"MonsterDetect", "MonstDetect", "MonDetect", "MonDet">>],
        [name |-> "object detection", forms |-> <<"ObjectDetect", "ObjectDetect", "ObjDetect", "ObjDet">>],
        [name |-> "confuse monster", forms |-> <<"ConfMonster", "ConfMon", "ConfMon", "ConfMn">>],
        [name |-> "destroy armor", forms |-> <<"DestArmor", "DestArm", "DstArm", "DstAr">>],
        [name |-> "fire", forms |-> <<"Fire", "Fire", "Fire", "Fir">>],
        [name |-> "food detection", forms |-> <<"FoodDetect", "FoodDet", "FoDet", "FDet">>],
        [name |-> "gold detection", forms |-> <<"GoldDetect", "GoldDet", "GoDet", "GDet">>],
        [name |-> "magic mapping", forms |-> <<"MagicMap", "MgcMap", "MMap", "Map">>],
        [name |-> "scare monster", forms |-> <<"ScareMonst", "ScareMon", "ScarMon", "ScrMn">>],
        [name |-> "teleportation", forms |-> <<"Teleport", "Telept", "Tele", "Tele">>],
        [name |-> "fire resistance", forms |-> <<"FireResist", "FireRes", "FireR", "FirR">>],
        [name |-> "free action", forms |-> <<"FreeAction", "FreeAction", "FreeAct", "FreAct">>],
        [name |-> "levitation", forms |-> <<"Levitate", "Levit", "Levit", "Levi">>],
        [name |-> "regeneration", forms |-> <<"Regenerate", "Regen", "Regen", "Reg">>],
        [name |-> "searching", forms |-> <<"Search", "Search", "Srch", "Src">>],
        [name |-> "slow digestion", forms |-> <<"SlowDigest", "SlowDigest", "SlwDigest", "SlwDgst">>],
        [name |-> "force bolt", forms |-> <<"ForceBolt", "ForceBolt", "ForcBolt", "FBolt">>],
        [name |-> "protection", forms |-> <<"Protect", "Protect", "Prot", "Prot">>],
        [name |-> "detect monsters", forms |-> <<"DetectMonst", "DetectMonst", "DetMonst", "DetMon">>],
        [name |-> "light", forms |-> <<"Light", "Light", "Ligt", "Lgt">>],
        [name |-> "sleep", forms |-> <<"Sleep", "Sleep", "Sleep", "Slp">>],
        [name |-> "jumping", forms |-> <<"Jump", "Jump", "Jump", "Jmp">>],
        [name |-> "healing", forms |-> <<"Heal", "Heal", "Heal", "Heal">>],
        [name |-> "knock", forms |-> <<"Knock", "Knock", "Knock", "Knk">>],
        [name |-> "cone of cold", forms |-> <<"ConeCold", "ConeCold", "ConeCold", "CnCold">>],
        [name |-> "fireball", forms |-> <<"Fireball", "Fireball", "FirBall", "FirBal">>],
        [name |-> "detect treasure", forms |-> <<"DetectTreasure", "DetTreasure", "DetTreasr", "DetTrsr">>],
        [name |-> "adornment", forms |-> <<"Adornmt", "Adorn", "Adorn", "Adrn">>],
        [name |-> "hunger", forms |-> <<"Hunger", "Hunger", "Hungr", "Hngr">>],
        [name |-> "protection from shape changers", forms |-> <<"ProtectShapeChg", "ProtShape", "ProtShap", "ProtShp">>],
        [name |-> "stealth", forms |-> <<"Stealth", "Stealth", "Steal", "Stl">>],
        [name |-> "sustain ability", forms |-> <<"SustainAbil", "SustAbil", "SustAbil", "SusAbil">>],
        [name |-> "warning", forms |-> <<"Warning", "Warning", "Warn", "Wrn">>],
        [name |-> "aggravate monster", forms |-> <<"AggravMonster", "AggravMonst", "AggrMonst", "AggrMon">>],
        [name |-> "cold resistance", forms |-> <<"ColdResist", "ColdRes", "ColdRs", "ColdR">>],
        [name |-> "gain constitution", forms |-> <<"GainConstit", "GainConst", "GainCon", "+Con">>],
        [name |-> "gain strength", forms |-> <<"GainStren", "GainStr", "GainStr", "+Str">>],
        [name |-> "increase accuracy", forms |-> <<"IncrAccuracy", "IncrAccu", "+Accu", "+Acc">>],
        [name |-> "increase damage", forms |-> <<"IncrDamage", "IncrDamg", "+Damg", "+Dmg">>],
        [name |-> "poison resistance", forms |-> <<"PoisonResist", "PoisonRes", "PoisRes", "PoisR">>],
        [name |-> "see invisible", forms |-> <<"SeeInvis", "SeeInvis", "SeeInvis", "SeeInvis">>],
        [name |-> "shock resistance", forms |-> <<"ShockResist", "ShockRes", "ShkRes", "ShkR">>],
        [name |-> "digging", forms |-> <<"Digging", "Dig", "Dig", "Dig">>],
        [name |-> "enlightenment", forms |-> <<"Enlight", "Enlight", "Enlig", "Enl">>],
        [name |-> "locking", forms |-> <<"Locking", "Lock", "Lock", "Lok">>],
        [name |-> "magic missile", forms |-> <<"MagicMisl", "MagicMisl", "MgcMisl", "MMisl">>],
        [name |-> "make invisible", forms |-> <<"MkInvisible", "MkInvis", "MkInvis", "MkInv">>],
        [name |-> "opening", forms |-> <<"Open", "Open", "Open", "Opn">>],
        [name |-> "probing", forms |-> <<"Probe", "Probe", "Prob", "Prob">>],
        [name |-> "secret door detection", forms |-> <<"SecretDoorDet", "SecDoorDet", "SecDoor", "SecDr">>],
        [name |-> "slow monster", forms |-> <<"SlowMonst", "SlowMon", "SlwMon", "SlwMn">>],
        [name |-> "speed monster", forms |-> <<"SpeedMonst", "SpeedMon", "SpdMon", "SpdMn">>],
        [name |-> "striking", forms |-> <<"Striking", "Strike", "Strik", "Str">>],
        [name |-> "undead turning", forms |-> <<"UndeadTurn", "UndTurn", "UTurn", "Turn">>],
        [name |-> "drain life", forms |-> <<"DrnLife", "DrnLife", "DrLife", "DrLife">>],
        [name |-> "create monster", forms |-> <<"CreateMonst", "CreatMonst", "CrMonst", "CrMon">>],
        [name |-> "detect food", forms |-> <<"DetectFood", "DetectFood", "DetFood", "DetFood">>],
        [name |-> "cure blindness", forms |-> <<"CureBlind", "CureBlind", "CurBlind", "CurBlind">>],
        [name |-> "wizard lock", forms |-> <<"WizLock", "Lock", "Lock", "Lok">>],
        [name |-> "chain lightning", forms |-> <<"ChainLight", "ChnLight", "ChnLtng", "ChLtng">>],
        [name |-> "remove curse", forms |-> <<"RemCurse", "RmCurse", "RmCurs", "RmCur">>],
        [name |-> "clairvoyance", forms |-> <<"Clairvoy", "Clair", "Clair", "Clair">>],
        [name |-> "detect unseen", forms |-> <<"DetUnseen", "DetUnseen", "DetUns", "DetUns">>],
        [name |-> "identify", forms |-> <<"Ident", "Ident", "ID", "ID">>],
        [name |-> "cause fear", forms |-> <<"CausFear", "CausFear", "CFear", "Fear">>],
        [name |-> "charm monster", forms |-> <<"CharmMonst", "CharmMons", "ChmMon", "ChmMn">>],
        [name |-> "haste self", forms |-> <<"HasteSelf", "HasteS", "Haste", "Hast">>],
        [name |-> "cure sickness", forms |-> <<"CureSickness", "CureSick", "CureSick", "CurSick">>],
        [name |-> "stone to flesh", forms |-> <<"Stone2Flesh", "StoneFlesh", "StnFlesh", "StFlesh">>]
    >>

RANDOM_APPEARANCES ==
    <<
        [kind |-> "scroll", appearances |-> <<
            "ZELGO MER", "JUYED AWK YACC", "NR 9", "XIXAXA XOXAXA XUXAXA",
            "PRATYAVAYAH", "DAIYEN FOOELS", "LEP GEX VEN ZEA", "PRIRUTSENIE",
            "ELBIB YLOH", "VERR YED HORRE", "VENZAR BORGAVVE", "THARR", "YUM YUM",
            "KERNOD WEL", "ELAM EBOW", "DUAM XNAHT", "ANDOVA BEGARIN", "KIRJE",
            "VE FORBRYDERNE", "HACKEM MUCHE", "VELOX NEB", "FOOBIE BLETCH", "TEMOV",
            "GARVEN DEH", "READ ME", "ETAOIN SHRDLU", "LOREM IPSUM", "FNORD",
            "KO BATE", "ABRA KA DABRA", "ASHPD SODALG", "MAPIRO MAHAMA DIROMAT",
            "GNIK SISI VLE", "HAPAX LEGOMENON", "EIRIS SAZUN IDISI", "PHOL ENDE WODAN",
            "GHOTI", "ZLORFIK", "VAS CORP BET MANI", "STRC PRST SKRZ KRK", "XOR OTA"
        >>],
        [kind |-> "potion", appearances |-> <<
            "ruby", "pink", "orange", "yellow", "emerald", "dark green", "cyan",
            "sky blue", "brilliant blue", "magenta", "purple-red", "puce", "milky",
            "swirly", "bubbly", "smoky", "cloudy", "effervescent", "black", "golden",
            "brown", "fizzy", "dark", "white", "murky"
        >>],
        [kind |-> "spellbook", appearances |-> <<
            "parchment", "vellum", "ragged", "dog eared", "mottled", "stained",
            "cloth", "leather", "white", "pink", "red", "orange", "yellow", "velvet",
            "light green", "dark green", "turquoise", "cyan", "light blue",
            "dark blue", "indigo", "magenta", "purple", "violet", "tan", "plaid",
            "light brown", "dark brown", "gray", "wrinkled", "dusty", "bronze",
            "copper", "silver", "gold", "glittering", "shining", "dull", "thin",
            "thick", "checkered"
        >>],
        [kind |-> "ring", appearances |-> <<
            "pearl", "iron", "twisted", "steel", "wire", "engagement", "shiny",
            "bronze", "brass", "copper", "silver", "gold", "wooden", "granite", "opal",
            "clay", "coral", "black onyx", "moonstone", "tiger eye", "jade", "agate",
            "topaz", "sapphire", "ruby", "diamond", "ivory", "emerald"
        >>],
        [kind |-> "amulet", appearances |-> <<
            "circular", "spherical", "oval", "triangular", "pyramidal", "square",
            "concave", "hexagonal", "octagonal"
        >>],
        [kind |-> "wand", appearances |-> <<
            "aluminum", "balsa", "brass", "copper", "crystal", "curved", "ebony",
            "forked", "glass", "hexagonal", "iridium", "iron", "jeweled", "long",
            "maple", "marble", "oak", "pine", "platinum", "runed", "short", "silver",
            "spiked", "steel", "tin", "uranium", "zinc"
        >>],
        [kind |-> "helmet", appearances |-> <<
            "plumed", "etched", "crested", "visored"
        >>],
        [kind |-> "cloak", appearances |-> <<
            "tattered cape", "ornamental cope", "opera cloak", "piece of cloth"
        >>],
        [kind |-> "gloves", appearances |-> <<
            "old", "padded", "riding", "fencing"
        >>],
        [kind |-> "boots", appearances |-> <<
            "mud", "snow", "riding", "buckled", "hiking", "combat", "jungle"
        >>]
    >>
(***************************************************************************)
(* Python helpers                                                          *)
(***************************************************************************)
Range(s) == {s[i] : i \in 1..Len(s)}

Min(a, b) == IF a <= b THEN a ELSE b

Max(a, b) == IF a >= b THEN a ELSE b

\* list[lo:hi] for 0 <= lo, 0 <= hi (Python slice, 0-based, hi exclusive)
Slice(s, lo, hi) == SubSeq(s, lo + 1, Min(hi, Len(s)))

startswith(s, prefix) ==
    Len(s) >= Len(prefix) /\ SubSeq(s, 1, Len(prefix)) = prefix

\* str.replace(old, new) for a non-empty old: every non-overlapping
\* occurrence, scanning from the left
RECURSIVE str_replace(_, _, _)
str_replace(s, old, new) ==
    IF Len(s) < Len(old) THEN s
    ELSE IF startswith(s, old)
         THEN new \o str_replace(SubSeq(s, Len(old) + 1, Len(s)), old, new)
         ELSE SubSeq(s, 1, 1) \o str_replace(SubSeq(s, 2, Len(s)), old, new)

\* "/".join(list)
RECURSIVE str_join(_, _)
str_join(sep, list) ==
    IF list = <<>> THEN ""
    ELSE IF Len(list) = 1 THEN list[1]
    ELSE list[1] \o sep \o str_join(sep, Tail(list))

\* list(filter(keep, list)) for keep given as the set of kept values
RECURSIVE list_filter(_, _)
list_filter(list, drop) ==
    IF list = <<>> THEN <<>>
    ELSE IF list[1] \in drop THEN list_filter(Tail(list), drop)
    ELSE <<list[1]>> \o list_filter(Tail(list), drop)

(***************************************************************************)
(* Python floats: IEEE 754 doubles.  A non-negative double is a record     *)
(* [m, e] of value m * 2^e, where m is 0 or has exactly 53 bits.  The      *)
(* 53-bit integer m is kept as four digits of base 32768, the most         *)
(* significant first.                                                      *)
(***************************************************************************)
big_of(n) == <<0, n \div (32768 * 32768), (n \div 32768) % 32768, n % 32768>>

int_of(a) == (a[2] * 32768 + a[3]) * 32768 + a[4]

\* 2 * a + bit
big_dbl(a, bit) ==
    LET t0 == 2 * a[4] + bit
        t1 == 2 * a[3] + t0 \div 32768
        t2 == 2 * a[2] + t1 \div 32768
    IN  <<2 * a[1] + t2 \div 32768, t2 % 32768, t1 % 32768, t0 % 32768>>

\* a \div 2
big_half(a) ==
    << a[1] \div 2,
       (a[2] + (a[1] % 2) * 32768) \div 2,
       (a[3] + (a[2] % 2) * 32768) \div 2,
       (a[4] + (a[3] % 2) * 32768) \div 2 >>

big_ge(a, b) ==
    IF a[1] # b[1] THEN a[1] > b[1]
    ELSE IF a[2] # b[2] THEN a[2] > b[2]
    ELSE IF a[3] # b[3] THEN a[3] > b[3]
    ELSE a[4] >= b[4]

\* a - b for a >= b
big_sub(a, b) ==
    LET d0 == a[4] - b[4]
        d1 == a[3] - b[3] - (IF d0 < 0 THEN 1 ELSE 0)
        d2 == a[2] - b[2] - (IF d1 < 0 THEN 1 ELSE 0)
        d3 == a[1] - b[1] - (IF d2 < 0 THEN 1 ELSE 0)
    IN  <<d3, d2 % 32768, d1 % 32768, d0 % 32768>>

big_inc(a) == big_sub(big_dbl(a, 1), a)

\* m * 2^e for m # 0, with m shifted to 53 bits
RECURSIVE normalize(_, _)
normalize(m, e) ==
    IF m[1] >= 128 THEN [m |-> m, e |-> e]
    ELSE normalize(big_dbl(m, 0), e - 1)

\* float(n) for an int 0 <= n < 2^31
float(n) ==
    IF n = 0 THEN [m |-> big_of(0), e |-> 0] ELSE normalize(big_of(n), 0)

\* n more bits of a division by b, for the quotient d.q and remainder d.r
\* so far
RECURSIVE div_bits(_, _, _)
div_bits(d, b, n) ==
    IF n = 0 THEN d
    ELSE IF big_ge(big_dbl(d.r, 0), b)
         THEN div_bits([q |-> big_dbl(d.q, 1), r |-> big_sub(big_dbl(d.r, 0), b)],
                       b, n - 1)
         ELSE div_bits([q |-> big_dbl(d.q, 0), r |-> big_dbl(d.r, 0)], b, n - 1)

\* The 55-bit quotient d (and remainder) of a division, rounded to 53 bits,
\* halves to the even neighbour; e is the exponent of the 53 bits
round_quotient(d, e) ==
    LET mant == big_half(big_half(d.q))
        guard == (d.q[4] \div 2) % 2 = 1
        sticky == d.q[4] % 2 = 1 \/ d.r # big_of(0)
        up == guard /\ (sticky \/ mant[4] % 2 = 1)
        m == IF up THEN big_inc(mant) ELSE mant
    IN  IF m[1] >= 256 THEN [m |-> big_half(m), e |-> e + 1]
        ELSE [m |-> m, e |-> e]

\* x / y for doubles x >= 0 and y > 0: the double nearest to the quotient
fdiv(x, y) ==
    IF x.m = big_of(0) THEN x
    ELSE IF big_ge(x.m, y.m)
         THEN round_quotient(div_bits([q |-> big_of(1), r |-> big_sub(x.m, y.m)],
                                      y.m, 54),
                             x.e - y.e - 52)
         ELSE round_quotient(div_bits([q |-> big_of(0), r |-> x.m], y.m, 55),
                             x.e - y.e - 53)

\* n / d for ints n >= 0 and d > 0
truediv(n, d) == fdiv(float(n), float(d))

\* The integer part of a double: x.m shifted right until the exponent is 0,
\* with the last bit shifted out and whether a bit shifted out before it
\* was set
RECURSIVE shift_right(_)
shift_right(x) ==
    IF x.e >= 0 THEN x
    ELSE shift_right([m |-> big_half(x.m), e |-> x.e + 1, last |-> x.m[4] % 2,
                      sticky |-> x.sticky \/ x.last = 1])

\* round(x) for a double 0 <= x < 2^31: halves go to the even integer
round(x) ==
    LET s == shift_right([m |-> x.m, e |-> x.e, last |-> 0, sticky |-> FALSE])
        i == int_of(s.m)
    IN  IF s.last = 1 /\ (s.sticky \/ i % 2 = 1) THEN i + 1 ELSE i

PyBool(b) == IF b THEN "True" ELSE "False"

(***************************************************************************)
(* priceid.py                                                              *)
(***************************************************************************)
\* The float constants of the module: the literals 1.5, 0.75 and 0.5, and the
\* quotients 4 / 3, 2 / 3 and 16 / 9 the code computes
ThreeHalves == truediv(3, 2)

FourThirds == truediv(4, 3)

ThreeQuarters == truediv(3, 4)

TwoThirds == truediv(2, 3)

OneHalf == truediv(1, 2)

SixteenNinths == truediv(16, 9)

get_charisma_multiplier(charisma) ==
    IF charisma <= 5 THEN float(2)
    ELSE IF charisma <= 7 THEN ThreeHalves
    ELSE IF charisma <= 10 THEN FourThirds
    ELSE IF charisma <= 15 THEN float(1)
    ELSE IF charisma <= 17 THEN ThreeQuarters
    ELSE IF charisma <= 18 THEN TwoThirds
    ELSE OneHalf

\* guess_base_cost_buying without the division by the charisma multiplier
guess_base_cost_buying_uncharismatic(price, charisma, sucker) ==
    LET uncharismated == float(price)
        candidates == << round(uncharismated),
                         round(fdiv(uncharismated, FourThirds)),
                         round(fdiv(uncharismated, SixteenNinths)) >>
    IN  IF sucker = "None" THEN candidates
        ELSE IF sucker = "True" THEN Slice(candidates, 1, 3)
        ELSE Slice(candidates, 0, 2)

guess_base_cost_buying(price, charisma, sucker) ==
    LET uncharismated == fdiv(float(price), get_charisma_multiplier(charisma))
        candidates == << round(uncharismated),
                         round(fdiv(uncharismated, FourThirds)),
                         round(fdiv(uncharismated, SixteenNinths)) >>
    IN  IF sucker = "None" THEN candidates
        ELSE IF sucker = "True" THEN Slice(candidates, 1, 3)
        ELSE Slice(candidates, 0, 2)

\* guess_base_cost_selling rounding every price to a multiple of 5
guess_base_cost_selling_by_fives(price, sucker) ==
    IF price = 1 THEN <<2, 2>>
    ELSE LET multiplier == IF sucker THEN 3 ELSE 2
         IN  << 5 * round(truediv(price * multiplier, 5)),
                5 * round(fdiv(truediv(price * multiplier * 4, 3), float(5))) >>

guess_base_cost_selling(price, sucker) ==
    IF price = 1 THEN <<2, 2>>
    ELSE LET multiplier == IF sucker THEN 3 ELSE 2
             nearest == IF price >= 5 THEN 5 ELSE 2
         IN  << nearest * round(truediv(price * multiplier, nearest)),
                nearest * round(fdiv(truediv(price * multiplier * 4, 3),
                                     float(nearest))) >>

erase_types_list ==
    << " boots", " cloak", "cloak of ", "helm of ", " gloves", "gauntlets of ",
       "scroll of ", "potion of ", "ring of ", "wand of ", "spellbook of " >>

RECURSIVE erase_item(_, _)
erase_item(item, types) ==
    IF types = <<>> THEN item
    ELSE erase_item(str_replace(item, types[1], ""), Tail(types))

erase_types(item_list) ==
    [i \in 1..Len(item_list) |-> erase_item(item_list[i], erase_types_list)]

full_random_item_name(kind, appearance) ==
    IF kind = "scroll" THEN "scroll labeled " \o appearance
    ELSE IF kind = "cloak" THEN appearance
    ELSE appearance \o " " \o kind

\* The (kind, appearance) pairs in the iteration order of lookup_item.
RECURSIVE appearance_pairs(_)
appearance_pairs(tables) ==
    IF tables = <<>> THEN <<>>
    ELSE [i \in 1..Len(tables[1].appearances) |->
             [kind |-> tables[1].kind, appearance |-> tables[1].appearances[i]]]
         \o appearance_pairs(Tail(tables))

NotFound == [kind |-> "", appearance |-> ""]

AppearancePairs == appearance_pairs(RANDOM_APPEARANCES)

AppearanceNames ==
    [i \in 1..Len(AppearancePairs) |->
        full_random_item_name(AppearancePairs[i].kind, AppearancePairs[i].appearance)]

\* The first pair, in iteration order, whose full name is the item
lookup_item(item) ==
    LET hits == { i \in 1..Len(AppearancePairs) : AppearanceNames[i] = item }
    IN  IF hits = {} THEN NotFound
        ELSE AppearancePairs[CHOOSE i \in hits : \A j \in hits : i <= j]

\* dict.get on a table kept as a sequence of [cost, names] records
RECURSIVE cost_names(_, _)
cost_names(table, cost) ==
    IF table = <<>> THEN <<>>
    ELSE IF table[1].cost = cost THEN table[1].names
    ELSE cost_names(Tail(table), cost)

RECURSIVE extend_candidates(_, _)
extend_candidates(table, possible_prices) ==
    IF possible_prices = <<>> THEN <<>>
    ELSE cost_names(table, possible_prices[1])
         \o extend_candidates(table, Tail(possible_prices))

\* find_price_candidates that does not pass the sucker status on
find_price_candidates_any_sucker(price, kind, charisma, sucker, buying) ==
    LET possible_prices ==
            IF buying THEN guess_base_cost_buying(price, charisma, "None")
            ELSE guess_base_cost_selling(price, FALSE)
    IN  extend_candidates(COST_TABLES[kind], possible_prices)

\* Defined for kind \in DOMAIN COST_TABLES; any other kind is a KeyError.
find_price_candidates(price, kind, charisma, sucker, buying) ==
    LET possible_prices ==
            IF buying THEN guess_base_cost_buying(price, charisma, sucker)
            ELSE guess_base_cost_selling(price, IF sucker = "None" THEN FALSE
                                                ELSE sucker = "True")
    IN  extend_candidates(COST_TABLES[kind], possible_prices)

\* `opt in table` for a table kept as a sequence of [cost, names] records
RECURSIVE has_cost(_, _)
has_cost(table, cost) ==
    IF table = <<>> THEN FALSE
    ELSE table[1].cost = cost \/ has_cost(Tail(table), cost)

\* `opt in const.COST_TABLES`: the keys of COST_TABLES are the kinds, and a
\* key is found only if it is a str equal to one of them
in_COST_TABLES(opt) == opt.type = "str" /\ opt.key \in DOMAIN COST_TABLES

\* Defined for kind \in DOMAIN COST_TABLES; the result is "True", "False" or
\* "None".  possible_prices[0] of the code is possible_prices[1] here.
is_shk_greedy(price, kind, sucker) ==
    LET possible_prices ==
            guess_base_cost_selling(price, IF sucker = "None" THEN FALSE
                                           ELSE sucker = "True")
        main == [type |-> "int", key |-> possible_prices[1]]
    IN  IF has_cost(COST_TABLES[kind], possible_prices[2])
        THEN IF ~in_COST_TABLES(main) THEN "True" ELSE "None"
        ELSE IF ~in_COST_TABLES(main) THEN "None" ELSE "False"

(***************************************************************************)
(* priceid.py: abbreviate_items                                            *)
(***************************************************************************)
ascii_lowercase == "abcdefghijklmnopqrstuvwxyz"

ascii_uppercase == "ABCDEFGHIJKLMNOPQRSTUVWXYZ"

\* The characters of item names and labels, in code point order.
ascii_order ==
    " +-0123456789ABCDEFGHIJKLMNOPQRSTUVWXYZabcdefghijklmnopqrstuvwxyz"

index_in(alphabet, c) ==
    IF \E i \in 1..Len(alphabet) : SubSeq(alphabet, i, i) = c
    THEN CHOOSE i \in 1..Len(alphabet) : SubSeq(alphabet, i, i) = c
    ELSE 0

char_upper(c) ==
    LET i == index_in(ascii_lowercase, c)
    IN  IF i = 0 THEN c ELSE SubSeq(ascii_uppercase, i, i)

char_lower(c) ==
    LET i == index_in(ascii_uppercase, c)
    IN  IF i = 0 THEN c ELSE SubSeq(ascii_lowercase, i, i)

RECURSIVE str_lower(_)
str_lower(s) ==
    IF s = "" THEN "" ELSE char_lower(SubSeq(s, 1, 1)) \o str_lower(SubSeq(s, 2, Len(s)))

\* str.capitalize()
capitalize(s) ==
    IF s = "" THEN "" ELSE char_upper(SubSeq(s, 1, 1)) \o str_lower(SubSeq(s, 2, Len(s)))

\* str.split(): the maximal runs of non-blank characters
RECURSIVE split_from(_, _)
split_from(s, word) ==
    IF s = "" THEN (IF word = "" THEN <<>> ELSE <<word>>)
    ELSE IF SubSeq(s, 1, 1) = " "
         THEN (IF word = "" THEN <<>> ELSE <<word>>)
              \o split_from(SubSeq(s, 2, Len(s)), "")
         ELSE split_from(SubSeq(s, 2, Len(s)), word \o SubSeq(s, 1, 1))

str_split(s) == split_from(s, "")

capitalized_words(item) ==
    LET words == str_split(item)
    IN  [i \in 1..Len(words) |-> capitalize(words[i])]

\* "".join(map(lambda x: x.capitalize(), item.split()))
cap_join(item) == str_join("", capitalized_words(item))

\* const.ABBREV_DICT.get(item): the four short forms, or <<>> for None
RECURSIVE abbrev_get(_, _)
abbrev_get(dict, item) ==
    IF dict = <<>> THEN <<>>
    ELSE IF dict[1].name = item THEN dict[1].forms
    ELSE abbrev_get(Tail(dict), item)

\* str < str: lexicographic by code point
RECURSIVE str_less(_, _)
str_less(a, b) ==
    IF b = "" THEN FALSE
    ELSE IF a = "" THEN TRUE
    ELSE LET ca == index_in(ascii_order, SubSeq(a, 1, 1))
             cb == index_in(ascii_order, SubSeq(b, 1, 1))
         IN  IF ca # cb THEN ca < cb
             ELSE str_less(SubSeq(a, 2, Len(a)), SubSeq(b, 2, Len(b)))

\* sorted(list of str)
RECURSIVE sorted_insert(_, _)
sorted_insert(list, s) ==
    IF list = <<>> THEN <<s>>
    ELSE IF str_less(s, list[1]) THEN <<s>> \o list
    ELSE <<list[1]>> \o sorted_insert(Tail(list), s)

RECURSIVE sorted(_)
sorted(list) ==
    IF list = <<>> THEN <<>>
    ELSE sorted_insert(sorted(SubSeq(list, 1, Len(list) - 1)), list[Len(list)])

\* x sorts strictly before y under key=lambda x: len(x[0]) / len(x[1])
ratio_less(x, y) ==
    Len(x.item) * Len(y.short) < Len(y.item) * Len(x.short)

\* sorted(zip_obj, key=...): a stable sort, ascending in the key
RECURSIVE ratio_insert(_, _)
ratio_insert(list, x) ==
    IF list = <<>> THEN <<x>>
    ELSE IF ratio_less(x, list[1]) THEN <<x>> \o list
    ELSE <<list[1]>> \o ratio_insert(Tail(list), x)

RECURSIVE ratio_sorted(_)
ratio_sorted(list) ==
    IF list = <<>> THEN <<>>
    ELSE ratio_insert(ratio_sorted(SubSeq(list, 1, Len(list) - 1)), list[Len(list)])

\* The list `items` built by iteration i of the dictionary loop
dict_step_items(item_list, i) ==
    [k \in 1..Len(item_list) |->
        IF i = 0 THEN cap_join(item_list[k])
        ELSE LET short_forms == abbrev_get(ABBREV_DICT, item_list[k])
             IN  IF short_forms # <<>> THEN short_forms[i] ELSE item_list[k]]

\* no_short after iteration i
dict_step_no_short(item_list, i) ==
    i # 0 /\ \A k \in 1..Len(item_list) : abbrev_get(ABBREV_DICT, item_list[k]) = <<>>

\* The dictionary loop from iteration i on, entered with the current value
\* of result.  kind is "return" (step 0 fits), "break" (left by a break) or
\* "else" (the loop ran to its end, min_step = -1).
RECURSIVE dict_loop(_, _, _, _)
dict_loop(item_list, target_length, i, result) ==
    IF i = 5
    THEN [kind |-> "else", min_step |-> -1, no_short |-> dict_step_no_short(item_list, 4),
          items |-> dict_step_items(item_list, 4), result |-> result]
    ELSE LET items == dict_step_items(item_list, i)
             no_short == dict_step_no_short(item_list, i)
             joined == str_join("/", items)
         IN  IF no_short
             THEN [kind |-> "break", min_step |-> i, no_short |-> TRUE,
                   items |-> items, result |-> result]
             ELSE IF Len(joined) <= target_length
                  THEN [kind |-> IF i = 0 THEN "return" ELSE "break", min_step |-> i,
                        no_short |-> FALSE, items |-> items, result |-> joined]
                  ELSE dict_loop(item_list, target_length, i + 1, joined)

\* The less abbreviated form fine tuning tries for one item
fine_alternative(item, min_step) ==
    IF min_step = 1 THEN cap_join(item)
    ELSE LET short_forms == abbrev_get(ABBREV_DICT, item)
         IN  IF short_forms # <<>> THEN short_forms[min_step - 1] ELSE item

\* The fine tuning loop expanding every item whatever the budget
RECURSIVE fine_tune_unbudgeted(_, _, _)
fine_tune_unbudgeted(pairs, min_step, budget) ==
    IF pairs = <<>> THEN <<>>
    ELSE <<fine_alternative(pairs[1].item, min_step)>>
         \o fine_tune_unbudgeted(Tail(pairs), min_step, budget)

\* The fine tuning loop over the sorted (item, short) pairs
RECURSIVE fine_tune(_, _, _)
fine_tune(pairs, min_step, budget) ==
    IF pairs = <<>> THEN <<>>
    ELSE LET short == pairs[1].short
             alternative == fine_alternative(pairs[1].item, min_step)
             budget_diff == Len(alternative) - Len(short)
         IN  IF short = alternative \/ budget_diff > budget
             THEN <<short>> \o fine_tune(Tail(pairs), min_step, budget)
             ELSE <<alternative>> \o fine_tune(Tail(pairs), min_step, budget - budget_diff)

ceil_div(a, b) == (a + b - 1) \div b

\* word[:n]
str_prefix(word, n) == SubSeq(word, 1, Min(n, Len(word)))

fallback_join(items, wordsize) ==
    str_join("/",
        [k \in 1..Len(items) |->
            str_join("", [w \in 1..Len(items[k]) |->
                str_prefix(items[k][w], ceil_div(wordsize, Len(items[k])))])])

RECURSIVE fallback_loop(_, _, _)
fallback_loop(items, target_length, wordsize) ==
    LET result == fallback_join(items, wordsize)
    IN  IF Len(result) <= target_length \/ wordsize = 1 THEN result
        ELSE fallback_loop(items, target_length, wordsize - 1)

RECURSIVE max_len(_)
max_len(words) ==
    IF words = <<>> THEN 0 ELSE Max(Len(words[1]), max_len(Tail(words)))

RECURSIVE max_wordlen_of(_)
max_wordlen_of(items) ==
    IF items = <<>> THEN 0 ELSE Max(max_len(items[1]), max_wordlen_of(Tail(items)))

abbreviate_items(full_list, target_length) ==
    LET item_list == erase_types(full_list)
        plain == str_join("/", item_list)
        loop == dict_loop(item_list, target_length, 0, plain)
        zip_obj == [k \in 1..Len(item_list) |->
                       [item |-> item_list[k], short |-> loop.items[k]]]
        words == [k \in 1..Len(item_list) |-> capitalized_words(item_list[k])]
    IN  IF Len(plain) <= target_length THEN plain
        ELSE IF loop.kind = "return" THEN loop.result
        ELSE IF ~loop.no_short /\ loop.min_step > 0
             THEN str_join("/", sorted(fine_tune(ratio_sorted(zip_obj), loop.min_step,
                                                 target_length - Len(loop.result))))
        ELSE IF max_wordlen_of(words) = 0 THEN loop.result
        ELSE fallback_loop(words, target_length, max_wordlen_of(words))

(***************************************************************************)
(* Bounds of the model                                                     *)
(***************************************************************************)
\* Turn counters shown on the status line are 1..MaxTurn.
MaxTurn == 3

\* The configured turn budgets are 0 (none) and 1..MaxBudget.
MaxBudget == 2

(***************************************************************************)
(* Frames: what tmux.py captures from the pane                             *)
(*                                                                         *)
(* A frame is the screen text, kept as the parts the monitor reads:        *)
(*   first_line  the top line (read_extcmd and the ^-anchored              *)
(*               CALL_PROMPT_RE look at it)                                *)
(*   text        the messages on screen that the monitor tests with        *)
(*               `"..." in frame`                                          *)
(*   cont, stat  the groups of the STATUS_CONT_RE / STATUS_RE match        *)
(*   sale        the groups of the first SALE_RE / PICKUP_SALE_RE match    *)
(*   offer       the groups of the OFFER_RE match                          *)
(***************************************************************************)
NoCont == [turn |-> NoneInt, xplevel |-> NoneInt]

NoStat == [charisma |-> NoneInt, rank |-> ""]

NoSale == [item |-> "", price |-> NoneInt, quantity |-> NoneInt]

NoOffer == [item |-> "", price |-> NoneInt]

BlankFrame ==
    [first_line |-> "", text |-> {}, cont |-> NoCont, stat |-> NoStat,
     sale |-> NoSale, offer |-> NoOffer]

DYWYPI == "Do you want your possessions identified?"

DustMessage == "You write in the dust with your fingertip.--More--"

WizdetectMessage == "Unavailable command 'wizdetect'."

ReallySave == "Really save? [yn]"

\* `needle in frame` for a message the game prints as a whole
str_contains(s, needle) ==
    \E i \in 0..(Len(s) - Len(needle)) : SubSeq(s, i + 1, i + Len(needle)) = needle

in_frame(needle, f) == \E message \in f.text : str_contains(message, needle)

Turns == 1..MaxTurn

\* One thing on screen: the field of the frame it occupies and its value.
OnTopLine(line) == [field |-> "first_line", value |-> line]

Message(m) == [field |-> "text", value |-> m]

ForSale(item, price, quantity) ==
    [field |-> "sale",
     value |-> [item |-> item, price |-> price, quantity |-> quantity]]

Offered(item, price) ==
    [field |-> "offer", value |-> [item |-> item, price |-> price]]

\* Can the feature be added to the frame (is its place still free)?
Fits(f, feature) ==
    IF feature.field = "text" THEN feature.value \notin f.text
    ELSE f[feature.field] = BlankFrame[feature.field]

Show(f, feature) ==
    IF feature.field = "text" THEN [f EXCEPT !.text = @ \cup {feature.value}]
    ELSE [f EXCEPT ![feature.field] = feature.value]

\* The two status lines of a character of experience level 14 and
\* charisma 11 on turn t
Status(t) ==
    [BlankFrame EXCEPT !.cont = [turn |-> t, xplevel |-> 14],
                       !.stat = [charisma |-> 11, rank |-> "Rambler"]]

\* The frames that show one of the bases alone or with one of the features
Screens(bases, features) ==
    bases \cup { Show(b, e) : b \in bases, e \in features }

\* The frames that show one of the bases with two of the features
PairScreens(bases, features) ==
    { Show(Show(p[1], p[2]), p[3]) :
        p \in { q \in bases \X features \X features :
                  q[2] # q[3] /\ Fits(Show(q[1], q[2]), q[3]) } }

(***************************************************************************)
(* The panes the runs attach to (args.targetpane).  Each shows one kind of *)
(* game session; Captures(pane) are the screens get_frame may capture      *)
(* from it and Replies the screens a wait for a change may return.         *)
(***************************************************************************)
\* "status": turns pass; the character may die; the player types commands
StatusEvents == {Message(DYWYPI), OnTopLine("# sucker"), OnTopLine("# reset")}

\* "shop": gloves are priced, offered for and named; "old gloves" at a
\* base price of 8 can only be leather gloves, at 50 one of three gauntlets
ShopEvents ==
    { ForSale("old gloves", 8, NoneInt), ForSale("old gloves", 50, NoneInt),
      ForSale("old gloves", 14, NoneInt), ForSale("old gloves", 100, 2),
      Offered("old gloves", 25), Offered("old gloves", 17),
      OnTopLine("Call a old gloves:   "),
      OnTopLine("# sucker"), OnTopLine("# !sucker"), OnTopLine("# reset") }

\* "dungeon": one event for each handler of process_frame, alone and in pairs
DungeonEvents ==
    { Message(DYWYPI), Message(DustMessage), Message(WizdetectMessage),
      OnTopLine("# !sucker"), ForSale("old gloves", 50, NoneInt),
      Offered("old gloves", 25), OnTopLine("Call a old gloves:   "),
      OnTopLine("# pray") }

Panes == {"status", "shop", "dungeon"}

\* "tourist": a character whose level is shown as 14, 15 or 16, with both
\* status lines, or with the second one only; the player types the sucker
\* control words
Level(xplevel) == [Status(1) EXCEPT !.cont.xplevel = xplevel]

TouristScreens ==
    {BlankFrame} \cup {Level(x) : x \in {14, 15, 16}}
    \cup {[Level(x) EXCEPT !.stat = NoStat] : x \in {14, 16}}

TouristEvents == {OnTopLine("# sucker"), OnTopLine("# !sucker")}

\* "elbereth": the player presses Ctrl+E now and then
ElberethScreens == Screens({Status(1)}, {Message(WizdetectMessage)})

Captures(pane) ==
    IF pane = "tourist" THEN Screens(TouristScreens, TouristEvents)
    ELSE IF pane = "elbereth" THEN ElberethScreens
    ELSE IF pane = "status"
    THEN Screens({BlankFrame} \cup {Status(t) : t \in Turns}, StatusEvents)
    ELSE IF pane = "shop"
    THEN Screens({BlankFrame, Status(1)}, ShopEvents)
    ELSE Screens({BlankFrame, Status(1)}, DungeonEvents)
         \cup PairScreens({Status(1)}, DungeonEvents)

Replies == {BlankFrame, Status(1)}

\* The screens wait_chg may return to save_and_quit
SaveReplies == Replies \cup { Show(f, Message(ReallySave)) : f \in Replies }
(***************************************************************************)
(* State                                                                   *)
(***************************************************************************)
VARIABLES
    args,       \* the parsed command line (nhassist.py)
    monitor,    \* the NHMonitor object the main loop holds, with its Tmux
    disk,       \* the persistence file on disk: NoFile or the saved data
    pc,         \* where the process is: a position of the main loop, of a
                \* handler waiting for the screen to change, or how it ended
    frame,      \* process_frame's local `frame`
    ran,        \* history: the handlers that acted in the current tick
    wrote       \* history: the outcome of this tick's persistence write

vars == <<args, monitor, disk, pc, frame, ran, wrote>>

NoFile == [exists |-> FALSE]

PersistencePath == "nhassist.json"

EmptyDict == [k \in {} |-> ""]

\* dict[key] = value
dict_set(dict, key, value) ==
    [k \in DOMAIN dict \cup {key} |-> IF k = key THEN value ELSE dict[k]]

\* The process ended: sys.exit(0), or an exception nothing catches.
Ended == {"exit", "TypeError", "FileNotFoundError", "KeyError"}

(***************************************************************************)
(* tmux.py: the calls the monitor makes.  monitor.tmux.sent is the history *)
(* of this tick's send-keys calls, each with the sync state at the call.   *)
(***************************************************************************)
\* Tmux.__init__ with the pane showing f
Tmux(f, busy_wait) ==
    [prev_frame |-> f, sent |-> <<>>, wait_update |-> ~busy_wait]

\* send_keys when the tmux command succeeds
send_keys(m, keys) ==
    [m EXCEPT !.tmux.sent = Append(@, [keys |-> keys, state |-> m.state])]

\* send_keys sending whatever list it is given
tmux_send_keys_unchecked(m, k, delivered) ==
    LET keys == IF k.is_str THEN <<k.str>> ELSE k.list
    IN  IF ~delivered THEN [error |-> "TmuxError", m |-> m]
        ELSE [error |-> "", m |-> send_keys(m, keys)]

\* Tmux.send_keys for the argument k, a string or a list; delivered tells
\* whether the tmux command succeeds.  error is the exception raised.
tmux_send_keys(m, k, delivered) ==
    LET keys == IF k.is_str THEN <<k.str>> ELSE k.list
    IN  IF keys = <<>> THEN [error |-> "ValueError", m |-> m]
        ELSE IF ~delivered THEN [error |-> "TmuxError", m |-> m]
        ELSE [error |-> "", m |-> send_keys(m, keys)]

\* wait_chg returning the changed screen without caching it
wait_chg_keeps_cache(m, f) == m

\* wait_chg returning the changed screen f (f # m.tmux.prev_frame)
wait_chg(m, f) == [m EXCEPT !.tmux.prev_frame = f]

\* get_frame(advance=True) capturing f
get_frame(m, f) == [m EXCEPT !.tmux.prev_frame = f]

\* The screens wait_chg can return from the set screens
Changed(m, screens) == {f \in screens : f # m.tmux.prev_frame}

(***************************************************************************)
(* nhmon.py: NHMonitor                                                     *)
(***************************************************************************)
\* persistence_load: the fields read from the file, defaults for the rest
persistence_load(m, file) ==
    IF ~file.exists THEN m
    ELSE [m EXCEPT !.price_id = file.price_id, !.known_items = file.known_items,
                   !.charisma = file.charisma, !.xplevel = file.xplevel,
                   !.sucker = file.sucker, !.tourist = file.tourist]

\* NHMonitor.__init__ with the pane showing f and the disk holding file
NHMonitor(a, f, file) ==
    LET m == [tmux |-> Tmux(f, FALSE),
              price_id |-> EmptyDict, known_items |-> EmptyDict,
              charisma |-> 0, xplevel |-> 0, sucker |-> FALSE, tourist |-> FALSE,
              turn |-> NoneInt, state |-> "init",
              autoeword |-> a.auto_elbereth, stopping |-> FALSE, reset |-> FALSE,
              aligned_turnlimit |-> a.aligned_turnlimit, turnlimit |-> a.turnlimit,
              stop_on_turn |-> 0, max_abbrev_length |-> a.abbreviation_length,
              persistence_file |-> a.persistence, dirty |-> FALSE]
    IN  IF a.persistence # "" THEN persistence_load(m, file) ELSE m

\* The data persistence_save dumps
persistence_data(m) ==
    [exists |-> TRUE, price_id |-> m.price_id, known_items |-> m.known_items,
     charisma |-> m.charisma, xplevel |-> m.xplevel, sucker |-> m.sucker,
     tourist |-> m.tourist]

\* persistence_save does nothing in these cases
persistence_save_skips(m) == ~m.dirty \/ m.persistence_file = ""

\* persistence_save when the file was written
persistence_save_ok(m) == [m EXCEPT !.dirty = FALSE]

\* A failed write that gives up on the pending changes as well
persistence_save_forgets(m) == [m EXCEPT !.persistence_file = "", !.dirty = FALSE]

\* persistence_save when open or write raised OSError
persistence_save_failed(m) == [m EXCEPT !.persistence_file = ""]

\* persistence_unlink: os.unlink(self.persistence_file).  error is the
\* exception it raises ("" for none), file the disk afterwards.
persistence_unlink(m, file) ==
    IF m.persistence_file = "" THEN [error |-> "TypeError", file |-> file]
    ELSE IF ~file.exists THEN [error |-> "FileNotFoundError", file |-> file]
    ELSE [error |-> "", file |-> NoFile]

mark_state_dirty(m) == [m EXCEPT !.dirty = TRUE]

restore_sync(m) == [m EXCEPT !.state = "sync"]

lost_sync(m) == [m EXCEPT !.state = "init"]

\* save_and_quit dropping sync although the prompt did not appear
save_and_quit_desyncs(m, reply) ==
    LET waited == wait_chg(send_keys(m, <<"S">>), reply)
    IN  IF in_frame(ReallySave, reply)
        THEN [ok |-> TRUE, m |-> lost_sync(send_keys(waited, <<"y">>))]
        ELSE [ok |-> FALSE, m |-> lost_sync(waited)]

\* save_and_quit answering the prompt after it has dropped sync
save_and_quit_confirms_late(m, reply) ==
    LET waited == wait_chg(send_keys(m, <<"S">>), reply)
    IN  IF in_frame(ReallySave, reply)
        THEN [ok |-> TRUE, m |-> send_keys(lost_sync(waited), <<"y">>)]
        ELSE [ok |-> FALSE, m |-> waited]

\* TtyMonitor.save_and_quit, with the screen wait_chg returns after "S"
save_and_quit(m, reply) ==
    LET waited == wait_chg(send_keys(m, <<"S">>), reply)
    IN  IF in_frame(ReallySave, reply)
        THEN [ok |-> TRUE, m |-> lost_sync(send_keys(waited, <<"y">>))]
        ELSE [ok |-> FALSE, m |-> waited]

\* The aligned threshold rounded up to a multiple that may equal the turn
turn_limit_ceiling(m, turn) ==
    IF m.aligned_turnlimit
    THEN m.turnlimit * ((turn + m.turnlimit - 1) \div m.turnlimit)
    ELSE turn + m.turnlimit

\* The threshold set_turn computes on acquiring sync
turn_limit(m, turn) ==
    IF m.aligned_turnlimit THEN m.turnlimit * (turn \div m.turnlimit + 1)
    ELSE turn + m.turnlimit

\* set_turn up to the turn limit check
set_turn_sync(m, turn) ==
    IF m.turn = NoneInt
    THEN LET synced == restore_sync(m)
         IN  IF m.turnlimit # 0
             THEN [synced EXCEPT !.stop_on_turn = turn_limit(m, turn)]
             ELSE synced
    ELSE m

\* The limit check passing only once the turn is beyond the threshold
turn_limit_passed(m, turn) ==
    m.stop_on_turn # 0 /\ turn > m.stop_on_turn /\ turn # m.turn

\* The limit check without the comparison with the stored turn
turn_limit_reached_again(m, turn) ==
    m.stop_on_turn # 0 /\ turn >= m.stop_on_turn

\* The condition under which set_turn saves and quits
turn_limit_reached(m, turn) ==
    m.stop_on_turn # 0 /\ turn >= m.stop_on_turn /\ turn # m.turn

\* set_turn storing the parsed turn also after a confirmed save
set_turn_keeps_turn(m, turn, reply) ==
    LET synced == set_turn_sync(m, turn)
    IN  IF turn_limit_reached(synced, turn)
        THEN LET saved == save_and_quit(mark_state_dirty(synced), reply)
             IN  [saved.m EXCEPT !.turn = turn]
        ELSE [synced EXCEPT !.turn = turn]

set_turn(m, turn, reply) ==
    LET synced == set_turn_sync(m, turn)
    IN  IF turn_limit_reached(synced, turn)
        THEN LET saved == save_and_quit(mark_state_dirty(synced), reply)
             IN  [saved.m EXCEPT !.turn = IF saved.ok THEN NoneInt ELSE turn]
        ELSE [synced EXCEPT !.turn = turn]

set_charisma(m, charisma) ==
    IF m.charisma # charisma
    THEN mark_state_dirty([m EXCEPT !.charisma = charisma])
    ELSE m

set_xplevel(m, xplevel) ==
    IF m.xplevel # xplevel
    THEN mark_state_dirty([m EXCEPT !.xplevel = xplevel])
    ELSE m

set_tourist(m, st) ==
    IF st THEN mark_state_dirty([m EXCEPT !.tourist = TRUE])
    ELSE [m EXCEPT !.tourist = FALSE]

\* set_sucker that does not mark the state dirty
set_sucker_quietly(m, st) == [m EXCEPT !.sucker = st]

set_sucker(m, st) ==
    LET marked == IF m.sucker # st THEN mark_state_dirty(m) ELSE m
    IN  [marked EXCEPT !.sucker = st]

\* check_sucker that does not look at the tourist flag
check_sucker_anyone(m) == set_sucker(m, m.xplevel < 15)

\* check_sucker that makes a tourist a sucker and never clears the flag
check_sucker_once(m) ==
    IF m.tourist /\ m.xplevel < 15 THEN set_sucker(m, TRUE) ELSE m

check_sucker(m) == IF m.tourist THEN set_sucker(m, m.xplevel < 15) ELSE m

\* `self.tourist is None`: the field holds a bool from __init__ on (and a
\* bool when loaded from a file persistence_save wrote)
tourist_is_None(m) == FALSE

\* Does this tick's find_stats call save_and_quit?
autosave_due(m) ==
    LET cont == m.tmux.prev_frame.cont
    IN  cont # NoCont /\ turn_limit_reached(set_turn_sync(m, cont.turn), cont.turn)

\* TtyMonitor.find_stats; reply is the screen after "S" if it saves
find_stats(m, reply) ==
    LET cont == m.tmux.prev_frame.cont
        m1 == IF cont # NoCont
              THEN LET turned == set_turn(m, cont.turn, reply)
                   IN  IF cont.xplevel # NoneInt
                       THEN set_xplevel(turned, cont.xplevel)
                       ELSE turned
              ELSE m
        stat == m1.tmux.prev_frame.stat
        m2 == IF stat # NoStat
              THEN LET charmed == set_charisma(m1, stat.charisma)
                       toured == IF tourist_is_None(charmed)
                                    /\ stat.rank \in TOURIST_LOW_LEVEL
                                 THEN set_tourist(charmed, TRUE)
                                 ELSE charmed
                   IN  check_sucker(toured)
              ELSE m1
    IN  m2

\* TtyMonitor.read_extcmd: the text after "# " on the top line; none when
\* the line does not start with "# "
read_extcmd(f) ==
    IF startswith(f.first_line, "# ")
    THEN [found |-> TRUE, cmd |-> SubSeq(f.first_line, 3, Len(f.first_line))]
    ELSE [found |-> FALSE, cmd |-> ""]

\* The commands handle_extcmd accepts
ControlWords == {"sucker", "!sucker", "reset"}

\* CALL_PROMPT_RE on the cached frame: ^Call (a|an) <item>: and two or
\* more blanks.  "" when there is no match.
RECURSIVE before_colon(_)
before_colon(s) ==
    IF s = "" \/ SubSeq(s, 1, 1) = ":" THEN ""
    ELSE SubSeq(s, 1, 1) \o before_colon(SubSeq(s, 2, Len(s)))

check_call_prompt(m) ==
    LET line == m.tmux.prev_frame.first_line
        rest == IF startswith(line, "Call a ") THEN SubSeq(line, 8, Len(line))
                ELSE IF startswith(line, "Call an ") THEN SubSeq(line, 9, Len(line))
                ELSE ""
        item == before_colon(rest)
    IN  IF item # "" /\ startswith(SubSeq(rest, Len(item) + 1, Len(rest)), ":  ")
        THEN item
        ELSE ""

is_dead(f) == in_frame(DYWYPI, f)

is_writing_eword(f) == in_frame(DustMessage, f)

invoke_ewait(f) == in_frame(WizdetectMessage, f)

\* learn_price_id storing the identity under the appearance
learn_known_item_by_appearance(m, identity, appearance) ==
    mark_state_dirty([m EXCEPT !.known_items = dict_set(@, appearance, identity)])

\* learn_price_id: `self.known_items[candidates[0]] = appearance`
learn_known_item(m, identity, appearance) ==
    mark_state_dirty([m EXCEPT !.known_items = dict_set(@, identity, appearance)])

\* A record replaced with the called flag of the record it replaces
learn_record_keeps_called(m, short_name, candidates, item) ==
    IF item \notin DOMAIN m.price_id
       \/ Range(candidates) # Range(m.price_id[item].candidates)
    THEN mark_state_dirty([m EXCEPT !.price_id =
             dict_set(@, item,
                      [short_name |-> short_name, candidates |-> candidates,
                       item_called |-> /\ item \in DOMAIN m.price_id
                                       /\ m.price_id[item].item_called])])
    ELSE m

\* learn_price_id storing a new record for every observation
learn_record_always(m, short_name, candidates, item) ==
    mark_state_dirty(
        [m EXCEPT !.price_id =
            dict_set(@, item, [short_name |-> short_name,
                               candidates |-> candidates,
                               item_called |-> FALSE])])

\* learn_price_id from `if item not in self.price_id` on
learn_record(m, short_name, candidates, item) ==
    IF item \notin DOMAIN m.price_id
       \/ Range(candidates) # Range(m.price_id[item].candidates)
    THEN mark_state_dirty(
             [m EXCEPT !.price_id =
                 dict_set(@, item, [short_name |-> short_name,
                                    candidates |-> candidates,
                                    item_called |-> FALSE])])
    ELSE m

\* learn_price_id forgetting the known items when the candidates are
\* ambiguous
learn_price_id_forgets(m, candidates, item, appearance) ==
    IF Len(candidates) = 1
    THEN learn_record(learn_known_item(m, candidates[1], appearance),
                      candidates[1], candidates, item)
    ELSE learn_record([m EXCEPT !.known_items = EmptyDict],
                      abbreviate_items(candidates, m.max_abbrev_length),
                      candidates, item)

\* NHMonitor.learn_price_id
learn_price_id(m, candidates, item, appearance) ==
    IF Len(candidates) = 1
    THEN learn_record(learn_known_item(m, candidates[1], appearance),
                      candidates[1], candidates, item)
    ELSE learn_record(m, abbreviate_items(candidates, m.max_abbrev_length),
                      candidates, item)

\* identify_purchase without the filter on the known items
purchase_candidates_unfiltered(m, kind, price, buying) ==
    find_price_candidates(price, kind, m.charisma, PyBool(m.sucker), buying)

\* The candidates identify_purchase hands to learn_price_id (for an item
\* lookup_item finds, of a kind the cost tables have)
purchase_candidates(m, kind, price, buying) ==
    list_filter(find_price_candidates(price, kind, m.charisma, PyBool(m.sucker), buying),
                DOMAIN m.known_items)

\* identify_purchase learning whatever the candidate list is
identify_candidates_unchecked(m, candidates, item, appearance) ==
    [error |-> "", m |-> learn_price_id(m, candidates, item, appearance)]

\* identify_purchase from `if not candidates` on
identify_candidates(m, candidates, item, appearance) ==
    IF candidates = <<>> THEN [error |-> "", m |-> m]
    ELSE [error |-> "", m |-> learn_price_id(m, candidates, item, appearance)]

\* identify_purchase after lookup_item.  error is the exception raised
\* ("" for none): COST_TABLES[kind] is a KeyError for a kind without a
\* cost table.
identify_found(m, found, item, price, buying) ==
    IF found = NotFound THEN [error |-> "", m |-> m]
    ELSE IF found.kind \notin DOMAIN COST_TABLES THEN [error |-> "KeyError", m |-> m]
    ELSE identify_candidates(m, purchase_candidates(m, found.kind, price, buying),
                             item, found.appearance)

\* NHMonitor.identify_purchase
identify_purchase(m, item, price, buying) ==
    identify_found(m, lookup_item(item), item, price, buying)

\* item_for_sale up to its wait_chg, for the first match
for_sale_item(sale) ==
    str_replace(str_replace(sale.item, "potions", "potion"), "scrolls", "scroll")

for_sale_price(sale) ==
    sale.price \div (IF sale.quantity = NoneInt THEN 1 ELSE sale.quantity)

\* process_frame with the wait-one-turn check ahead of the auto-engrave
\* check and the sale check ahead of the purchase check
dispatch_reordered(m, f) ==
    IF m.state # "sync" THEN "none"
    ELSE IF is_dead(f) THEN "death"
    ELSE IF invoke_ewait(f) THEN "ewait"
    ELSE IF is_writing_eword(f) /\ m.autoeword THEN "write_eword"
    ELSE IF read_extcmd(f).found /\ read_extcmd(f).cmd \in ControlWords
         THEN "handle_extcmd"
    ELSE IF m.tmux.prev_frame.offer # NoOffer THEN "item_to_sell"
    ELSE IF m.tmux.prev_frame.sale # NoSale THEN "item_for_sale"
    ELSE IF check_call_prompt(m) # ""
            /\ check_call_prompt(m) \in DOMAIN m.price_id
            /\ ~m.price_id[check_call_prompt(m)].item_called
         THEN "dispatch_price_id"
    ELSE "none"

\* process_frame with a dispatch_price_id that does not look at the called
\* flag of the record
dispatch_calls_again(m, f) ==
    IF m.state # "sync" THEN "none"
    ELSE IF is_dead(f) THEN "death"
    ELSE IF is_writing_eword(f) /\ m.autoeword THEN "write_eword"
    ELSE IF invoke_ewait(f) THEN "ewait"
    ELSE IF read_extcmd(f).found /\ read_extcmd(f).cmd \in ControlWords
         THEN "handle_extcmd"
    ELSE IF m.tmux.prev_frame.sale # NoSale THEN "item_for_sale"
    ELSE IF m.tmux.prev_frame.offer # NoOffer THEN "item_to_sell"
    ELSE IF check_call_prompt(m) # ""
            /\ check_call_prompt(m) \in DOMAIN m.price_id
         THEN "dispatch_price_id"
    ELSE "none"

\* The handler process_frame runs for the local frame f, "none" if no check
\* matches or the monitor is not in sync
dispatch(m, f) ==
    IF m.state # "sync" THEN "none"
    ELSE IF is_dead(f) THEN "death"
    ELSE IF is_writing_eword(f) /\ m.autoeword THEN "write_eword"
    ELSE IF invoke_ewait(f) THEN "ewait"
    ELSE IF read_extcmd(f).found /\ read_extcmd(f).cmd \in ControlWords
         THEN "handle_extcmd"
    ELSE IF m.tmux.prev_frame.sale # NoSale THEN "item_for_sale"
    ELSE IF m.tmux.prev_frame.offer # NoOffer THEN "item_to_sell"
    ELSE IF check_call_prompt(m) # ""
            /\ check_call_prompt(m) \in DOMAIN m.price_id
            /\ ~m.price_id[check_call_prompt(m)].item_called
         THEN "dispatch_price_id"
    ELSE "none"


(***************************************************************************)
(* The process: nhassist.py's main loop calling process_frame              *)
(***************************************************************************)
\* The argument check of nhassist.py
ValidArgs(a) ==
    /\ a.abbreviation_length >= 1
    /\ IF a.turnlimit # 0 THEN a.turnlimit >= 1 ELSE ~a.aligned_turnlimit

\* The command lines of the runs
ArgsSet ==
    { [targetpane |-> "status", auto_elbereth |-> FALSE, aligned_turnlimit |-> a,
       turnlimit |-> t, abbreviation_length |-> 60, persistence |-> p] :
        a \in BOOLEAN, t \in 0..MaxBudget, p \in {"", PersistencePath} }
    \cup { [targetpane |-> "shop", auto_elbereth |-> FALSE,
            aligned_turnlimit |-> FALSE, turnlimit |-> 0,
            abbreviation_length |-> n, persistence |-> ""] : n \in {60, 12} }
    \cup { [targetpane |-> "shop", auto_elbereth |-> FALSE,
            aligned_turnlimit |-> FALSE, turnlimit |-> 0,
            abbreviation_length |-> 60, persistence |-> PersistencePath] }
    \cup { [targetpane |-> "dungeon", auto_elbereth |-> e,
            aligned_turnlimit |-> FALSE, turnlimit |-> 0,
            abbreviation_length |-> 60, persistence |-> ""] : e \in BOOLEAN }

Init ==
    /\ args \in {a \in ArgsSet : ValidArgs(a)}
    /\ disk = NoFile
    /\ \E f \in Captures(args.targetpane) : monitor = NHMonitor(args, f, disk)
    /\ pc = "loop"
    /\ frame = BlankFrame
    /\ ran = <<>>
    /\ wrote = "none"

\* `monitor = MonitorClass(args)` after the reset command
Rebuild ==
    /\ pc = "loop"
    /\ ~monitor.stopping
    /\ monitor.reset
    /\ \E f \in Captures(args.targetpane) : monitor' = NHMonitor(args, f, disk)
    /\ UNCHANGED <<args, disk, pc, frame, ran, wrote>>

\* process_frame from get_frame() to the end of find_stats(), for the
\* monitor m that persistence_save() left
Started(m, f, reply) ==
    LET captured == get_frame([m EXCEPT !.tmux.sent = <<>>], f)
    IN  /\ IF autosave_due(captured) THEN reply \in Changed(captured, SaveReplies)
           ELSE reply = BlankFrame
        /\ monitor' = find_stats(captured, reply)
        /\ frame' = f

\* process_frame: persistence_save(), get_frame() and find_stats()
TickStart ==
    /\ pc = "loop"
    /\ ~monitor.stopping
    /\ ~monitor.reset
    /\ \E f \in Captures(args.targetpane), reply \in SaveReplies :
         \/ /\ persistence_save_skips(monitor)
            /\ Started(monitor, f, reply)
            /\ wrote' = "none"
            /\ disk' = disk
         \/ /\ ~persistence_save_skips(monitor)
            /\ Started(persistence_save_ok(monitor), f, reply)
            /\ wrote' = "ok"
            /\ disk' = persistence_data(monitor)
         \/ /\ ~persistence_save_skips(monitor)
            /\ Started(persistence_save_failed(monitor), f, reply)
            /\ wrote' = "OSError"
            /\ disk' = disk
    /\ pc' = "dispatch"
    /\ ran' = <<>>
    /\ UNCHANGED args

\* process_frame returns to the main loop leaving the monitor m.  Its local
\* frame is gone, and the cached screen is never read again: the next
\* get_frame() replaces it first.
Return(m) ==
    /\ pc' = "loop"
    /\ frame' = BlankFrame
    /\ monitor' = [m EXCEPT !.tmux.prev_frame = BlankFrame]

Dispatches(handler) ==
    /\ pc = "dispatch"
    /\ dispatch(monitor, frame) = handler
    /\ ran' = IF handler = "none" THEN ran ELSE Append(ran, handler)

\* No check matches
NoHandler ==
    /\ Dispatches("none")
    /\ Return(monitor)
    /\ UNCHANGED <<args, disk, wrote>>

\* Death: lost_sync, persistence_unlink, sys.exit(0)
Death ==
    /\ Dispatches("death")
    /\ monitor' = lost_sync(monitor)
    /\ LET unlinked == persistence_unlink(lost_sync(monitor), disk)
       IN  /\ disk' = unlinked.file
           /\ pc' = IF unlinked.error # "" THEN unlinked.error ELSE "exit"
    /\ UNCHANGED <<args, frame, wrote>>

\* A handler's last wait_chg, after which process_frame returns
WaitAndReturn(at) ==
    /\ pc = at
    /\ \E f \in Changed(monitor, Replies) : Return(wait_chg(monitor, f))
    /\ UNCHANGED <<args, disk, ran, wrote>>

\* handle_extcmd for an accepted command
HandleExtcmd ==
    /\ Dispatches("handle_extcmd")
    /\ LET cmd == read_extcmd(frame).cmd
       IN  IF cmd = "reset"
           THEN LET unlinked == persistence_unlink(monitor, disk)
                IN  /\ disk' = unlinked.file
                    /\ IF unlinked.error # ""
                       THEN /\ monitor' = [monitor EXCEPT !.reset = TRUE]
                            /\ pc' = unlinked.error
                            /\ frame' = frame
                       ELSE Return(send_keys([monitor EXCEPT !.reset = TRUE],
                                             <<"Escape", "Escape">>))
           ELSE /\ Return(send_keys(set_sucker(monitor, cmd = "sucker"),
                                    <<"Escape", "Escape">>))
                /\ disk' = disk
    /\ UNCHANGED <<args, wrote>>

\* item_for_sale and item_to_sell up to their wait_chg
Identify(handler, item, price, buying) ==
    /\ Dispatches(handler)
    /\ \E identified \in {identify_purchase(monitor, item, price, buying)} :
         /\ monitor' = identified.m
         /\ pc' = IF identified.error # "" THEN identified.error
                  ELSE handler \o ".wait_chg"
    /\ UNCHANGED <<args, disk, frame, wrote>>

ItemForSale ==
    LET sale == monitor.tmux.prev_frame.sale
    IN  Identify("item_for_sale", for_sale_item(sale), for_sale_price(sale), TRUE)

ItemForSaleWait == WaitAndReturn("item_for_sale.wait_chg")

ItemToSell ==
    LET offer == monitor.tmux.prev_frame.offer
    IN  Identify("item_to_sell", offer.item, offer.price, FALSE)

ItemToSellWait == WaitAndReturn("item_to_sell.wait_chg")

\* dispatch_price_id for an item that has not been called
DispatchPriceId ==
    /\ Dispatches("dispatch_price_id")
    /\ LET item == check_call_prompt(monitor)
           typed == send_keys(monitor, <<monitor.price_id[item].short_name, "C-m">>)
       IN  monitor' = [typed EXCEPT !.price_id[item].item_called = TRUE]
    /\ pc' = "dispatch_price_id.wait_chg"
    /\ UNCHANGED <<args, disk, frame, wrote>>

DispatchPriceIdWait ==
    /\ pc = "dispatch_price_id.wait_chg"
    /\ \E f \in Changed(monitor, Replies) :
         Return(mark_state_dirty(wait_chg(monitor, f)))
    /\ UNCHANGED <<args, disk, ran, wrote>>

\* write_eword: three send_keys_and_wait, then ":"
WriteEword ==
    /\ Dispatches("write_eword")
    /\ monitor' = send_keys(monitor, <<"C-m">>)
    /\ pc' = "write_eword.1"
    /\ UNCHANGED <<args, disk, frame, wrote>>

WriteEwordWait(at, keys, next) ==
    /\ pc = at
    /\ \E f \in Changed(monitor, Replies) :
         LET typed == send_keys(wait_chg(monitor, f), keys)
         IN  IF next = "" THEN Return(typed)
             ELSE monitor' = typed /\ pc' = next /\ frame' = frame
    /\ UNCHANGED <<args, disk, ran, wrote>>

WriteEword1 == WriteEwordWait("write_eword.1", <<"Elbereth">>, "write_eword.2")

WriteEword2 == WriteEwordWait("write_eword.2", <<"C-m">>, "write_eword.3")

WriteEword3 == WriteEwordWait("write_eword.3", <<":">>, "")
(***************************************************************************)
(* TtyMonitor.ewait and skip_more, one action per wait for the screen      *)
(***************************************************************************)
\* The game shows at most MaxMore --More-- prompts during one ewait.
MaxMore == 2

ReadElbereth == "You read: \"Elbereth\"."

ReadSmudged == "You read: \"Elbexeth\"."

NoObjects == "You see no objects here."

MorePrompt == "--More--"

WaitingToGetHit == "Are you waiting to get hit?"

AddToEngraving == "Do you want to add to the current engraving?"

\* The screens the game may show while ewait runs
EwaitReplies ==
    { [BlankFrame EXCEPT !.text = t] :
        t \in { {}, {ReadElbereth}, {ReadElbereth, MorePrompt}, {ReadSmudged},
                {NoObjects}, {MorePrompt}, {WaitingToGetHit}, {AddToEngraving} } }

\* The number of --More-- prompts dismissed so far in this tick
count_keys(sent, keys) ==
    Cardinality({ i \in 1..Len(sent) : sent[i].keys = keys })

\* The screens a wait inside ewait may return
EwaitChanged(m) ==
    { f \in Changed(m, EwaitReplies) :
        in_frame(MorePrompt, f) => count_keys(m.tmux.sent, <<"C-m">>) < MaxMore }

\* ewait: send ":" and enter the loop
Ewait ==
    /\ Dispatches("ewait")
    /\ monitor' = send_keys(monitor, <<":">>)
    /\ pc' = "ewait.look"
    /\ UNCHANGED <<args, disk, frame, wrote>>

\* skip_more(frame, skipall=True), then what follows it
skip_all(f, at, keys, next) ==
    IF in_frame(MorePrompt, f) THEN [keys |-> <<"C-m">>, next |-> at]
    ELSE [keys |-> keys, next |-> next]

\* The top of the loop waiting again on a screen it does not recognise
ewait_look_retries(f) ==
    IF in_frame(ReadElbereth, f)
    THEN skip_all(f, "ewait.skip_more_rest", <<".">>, "ewait.rest")
    ELSE IF in_frame("You read: \"", f) \/ in_frame(NoObjects, f)
         THEN [keys |-> <<"E">>, next |-> "ewait.engrave"]
    ELSE IF in_frame(MorePrompt, f)
         THEN [keys |-> <<"C-m">>, next |-> "ewait.look"]
    ELSE [keys |-> <<>>, next |-> "ewait.look"]

\* `frame = self.tmux.wait_chg()` at the top of the loop
ewait_look(f) ==
    IF in_frame(ReadElbereth, f)
    THEN skip_all(f, "ewait.skip_more_rest", <<".">>, "ewait.rest")
    ELSE IF in_frame("You read: \"", f) \/ in_frame(NoObjects, f)
         THEN [keys |-> <<"E">>, next |-> "ewait.engrave"]
    ELSE IF in_frame(MorePrompt, f)
         THEN [keys |-> <<"C-m">>, next |-> "ewait.look"]
    ELSE [keys |-> <<>>, next |-> ""]

\* the wait inside skip_more(frame, skipall=True) before resting
ewait_skip_more_rest(f) == skip_all(f, "ewait.skip_more_rest", <<".">>, "ewait.rest")

\* the wait after "." going on whatever the game answered
ewait_rest_insists(f) == [keys |-> <<":">>, next |-> "ewait.look_again"]

\* the wait after "."
ewait_rest(f) ==
    IF in_frame(WaitingToGetHit, f) THEN [keys |-> <<>>, next |-> ""]
    ELSE [keys |-> <<":">>, next |-> "ewait.look_again"]

\* the wait after the second ":" and skip_more(frame)
ewait_look_again(f) ==
    IF in_frame(MorePrompt, f) THEN [keys |-> <<"C-m">>, next |-> ""]
    ELSE [keys |-> <<>>, next |-> ""]

\* the wait after "E"
ewait_engrave(f) == [keys |-> <<"-">>, next |-> "ewait.finger"]

\* the wait after "-" that does not look for the add-to-engraving prompt
ewait_finger_adds(f) ==
    skip_all(f, "ewait.skip_more_write", <<"Elbereth">>, "ewait.write")

\* the wait after "-"
ewait_finger(f) ==
    IF in_frame(AddToEngraving, f) THEN [keys |-> <<"n">>, next |-> "ewait.add"]
    ELSE skip_all(f, "ewait.skip_more_write", <<"Elbereth">>, "ewait.write")

\* the wait after "n", and the wait inside skip_more(frame, skipall=True)
ewait_skip_more_write(f) ==
    skip_all(f, "ewait.skip_more_write", <<"Elbereth">>, "ewait.write")

\* the wait after "Elbereth"
ewait_write(f) == [keys |-> <<"C-m", ":">>, next |-> ""]

\* What follows the wait_chg at position `at` when it returned f: the keys
\* sent and the position reached ("" for return)
ewait_step(at, f) ==
    CASE at = "ewait.look" -> ewait_look(f)
      [] at = "ewait.skip_more_rest" -> ewait_skip_more_rest(f)
      [] at = "ewait.rest" -> ewait_rest(f)
      [] at = "ewait.look_again" -> ewait_look_again(f)
      [] at = "ewait.engrave" -> ewait_engrave(f)
      [] at = "ewait.finger" -> ewait_finger(f)
      [] at = "ewait.add" -> ewait_skip_more_write(f)
      [] at = "ewait.skip_more_write" -> ewait_skip_more_write(f)
      [] at = "ewait.write" -> ewait_write(f)

\* One wait_chg of ewait at position `at` and what follows it
EwaitStep(at) ==
    /\ pc = at
    /\ \E f \in EwaitChanged(monitor) :
         \E step \in {ewait_step(at, f)} :
           \E typed \in {IF step.keys = <<>> THEN wait_chg(monitor, f)
                          ELSE send_keys(wait_chg(monitor, f), step.keys)} :
             IF step.next = "" THEN Return(typed)
             ELSE monitor' = typed /\ pc' = step.next /\ frame' = frame
    /\ UNCHANGED <<args, disk, ran, wrote>>

EwaitLook == EwaitStep("ewait.look")

EwaitSkipMoreRest == EwaitStep("ewait.skip_more_rest")

EwaitRest == EwaitStep("ewait.rest")

EwaitLookAgain == EwaitStep("ewait.look_again")

EwaitEngrave == EwaitStep("ewait.engrave")

EwaitFinger == EwaitStep("ewait.finger")

EwaitAdd == EwaitStep("ewait.add")

EwaitSkipMoreWrite == EwaitStep("ewait.skip_more_write")

EwaitWrite == EwaitStep("ewait.write")
(***************************************************************************)
(* tmux.py: the Tmux object on its own, called by a client that sends keys *)
(* and waits for the screen to change.  Here pc is "tmux" between calls,   *)
(* a position of wait_chg's loop, or the exception that ended the run; ran *)
(* holds the call being made and one entry for each sleep of wait_chg;     *)
(* frame is wait_chg's local `frame`.                                      *)
(***************************************************************************)
\* Sleeps of one wait_chg call
MaxPolls == 2

\* Calls of send_keys that reach the pane
MaxSent == 2

\* The arguments of send_keys: a string or a list of strings
KeyArguments ==
    { [is_str |-> TRUE, str |-> "S", list |-> <<>>],
      [is_str |-> FALSE, str |-> "", list |-> <<>>],
      [is_str |-> FALSE, str |-> "", list |-> <<"y">>],
      [is_str |-> FALSE, str |-> "", list |-> <<"C-m", ":">>] }

NoKeys == [is_str |-> FALSE, str |-> "", list |-> <<>>]

TmuxInit ==
    /\ args = [targetpane |-> "dungeon", auto_elbereth |-> FALSE,
               aligned_turnlimit |-> FALSE, turnlimit |-> 0,
               abbreviation_length |-> 60, persistence |-> ""]
    /\ disk = NoFile
    /\ \E f \in SaveReplies, busy_wait \in BOOLEAN :
         monitor = [NHMonitor(args, f, disk) EXCEPT !.tmux = Tmux(f, busy_wait)]
    /\ pc = "tmux"
    /\ frame = BlankFrame
    /\ ran = <<>>
    /\ wrote = "none"

\* A call of send_keys
TmuxSendKeys ==
    /\ pc = "tmux"
    /\ Len(monitor.tmux.sent) < MaxSent
    /\ \E k \in KeyArguments, delivered \in BOOLEAN :
         /\ \E sent \in {tmux_send_keys(monitor, k, delivered)} :
              /\ monitor' = sent.m
              /\ pc' = IF sent.error # "" THEN sent.error ELSE "tmux"
         /\ ran' = <<[call |-> "send_keys", keys |-> k, delivered |-> delivered]>>
    /\ UNCHANGED <<args, disk, frame, wrote>>

\* The position of wait_chg at the top of its loop
wait_chg_top(m) ==
    IF m.tmux.wait_update THEN "wait_chg.wait_for" ELSE "wait_chg.capture"

\* A call of wait_chg
TmuxWaitChg ==
    /\ pc = "tmux"
    /\ pc' = wait_chg_top(monitor)
    /\ ran' = <<[call |-> "wait_chg", keys |-> NoKeys, delivered |-> TRUE]>>
    /\ UNCHANGED <<args, monitor, disk, frame, wrote>>

\* wait_chg: `tmux wait-for nhassist` returns, or fails
TmuxWaitFor ==
    /\ pc = "wait_chg.wait_for"
    /\ \E notified \in BOOLEAN :
         pc' = IF notified THEN "wait_chg.capture" ELSE "CalledProcessError"
    /\ UNCHANGED <<args, monitor, disk, frame, ran, wrote>>

\* wait_chg: get_frame(advance=False), the comparison with the cached
\* frame, and the sleep when they are equal
TmuxCapture ==
    /\ pc = "wait_chg.capture"
    /\ \E f \in SaveReplies, captured \in BOOLEAN :
         IF ~captured
         THEN /\ pc' = "TmuxError"
              /\ UNCHANGED <<monitor, frame, ran>>
         ELSE IF Changed(monitor, {f}) # {}
         THEN /\ monitor' = wait_chg(monitor, f)
              /\ frame' = f
              /\ pc' = "tmux"
              /\ ran' = ran
         ELSE /\ Len(ran) <= MaxPolls
              /\ monitor' = monitor
              /\ frame' = f
              /\ pc' = wait_chg_top(monitor)
              /\ ran' = Append(ran, [call |-> "sleep", keys |-> NoKeys,
                                     delivered |-> TRUE])
    /\ UNCHANGED <<args, disk, wrote>>

TmuxNext ==
    \/ TmuxSendKeys
    \/ TmuxWaitChg
    \/ TmuxWaitFor
    \/ TmuxCapture

TmuxSpec == TmuxInit /\ [][TmuxNext]_vars

(***************************************************************************)
(* priceid.py: the price functions on their own, called by a client.  Here *)
(* pc is "priceid" between calls and "returned" after one; ran holds the   *)
(* call made, its arguments and its result.                                *)
(***************************************************************************)
\* The base prices of the catalog, of any kind
RECURSIVE table_costs(_)
table_costs(table) ==
    IF table = <<>> THEN {} ELSE {table[1].cost} \cup table_costs(Tail(table))

BasePrices == UNION { table_costs(COST_TABLES[kind]) : kind \in DOMAIN COST_TABLES }

\* The multiplier of get_charisma_multiplier as a ratio <<n, d>>
charisma_ratio(charisma) ==
    IF charisma <= 5 THEN <<2, 1>>
    ELSE IF charisma <= 7 THEN <<3, 2>>
    ELSE IF charisma <= 10 THEN <<4, 3>>
    ELSE IF charisma <= 15 THEN <<1, 1>>
    ELSE IF charisma <= 17 THEN <<3, 4>>
    ELSE IF charisma <= 18 THEN <<2, 3>>
    ELSE <<1, 2>>

\* The prices a shop can ask for an item of base price b: b times the
\* charisma multiplier, times 4/3 for a sucker, rounded down or up
quoted_prices(b, charisma, sucker) ==
    LET n == b * charisma_ratio(charisma)[1] * (IF sucker THEN 4 ELSE 1)
        d == charisma_ratio(charisma)[2] * (IF sucker THEN 3 ELSE 1)
    IN  {n \div d, (n + d - 1) \div d}

\* The highest price offered for an item
MaxPrice == 150

\* The longest label asked for
MaxLength == 30

\* The candidate lists to abbreviate: the catalog entries of one kind under
\* one base price, and the first one or three of them
AbbrevInputs ==
    { Slice(cost_names(COST_TABLES[kind], cost), 0, n) :
        kind \in DOMAIN COST_TABLES, cost \in BasePrices, n \in {1, 3, 30} }
    \ {<<>>}

NoCall == [call |-> "", price |-> 0, kind |-> "", charisma |-> 0,
           sucker |-> "None", buying |-> TRUE, base |-> 0,
           item_list |-> <<>>, target_length |-> 0, result |-> <<>>]

PriceInit ==
    /\ args = [targetpane |-> "dungeon", auto_elbereth |-> FALSE,
               aligned_turnlimit |-> FALSE, turnlimit |-> 0,
               abbreviation_length |-> 60, persistence |-> ""]
    /\ disk = NoFile
    /\ monitor = NHMonitor(args, BlankFrame, disk)
    /\ pc = "priceid"
    /\ frame = BlankFrame
    /\ ran = <<>>
    /\ wrote = "none"

\* A call of guess_base_cost_buying with the price a shop asks for an item
\* of base price b
PriceGuessBuying ==
    /\ pc = "priceid"
    /\ \E b \in BasePrices, charisma \in 3..18, sucker \in BOOLEAN :
         \E price \in quoted_prices(b, charisma, sucker) :
            ran' = <<[NoCall EXCEPT
                        !.call = "guess_base_cost_buying", !.price = price,
                        !.charisma = charisma, !.sucker = PyBool(sucker),
                        !.base = b,
                        !.result = guess_base_cost_buying(price, charisma,
                                                          PyBool(sucker))]>>
    /\ pc' = "returned"
    /\ UNCHANGED <<args, monitor, disk, frame, wrote>>

\* A call of guess_base_cost_selling
PriceGuessSelling ==
    /\ pc = "priceid"
    /\ \E price \in 1..MaxPrice, sucker \in BOOLEAN :
         ran' = <<[NoCall EXCEPT
                     !.call = "guess_base_cost_selling", !.price = price,
                     !.sucker = PyBool(sucker), !.buying = FALSE,
                     !.result = guess_base_cost_selling(price, sucker)]>>
    /\ pc' = "returned"
    /\ UNCHANGED <<args, monitor, disk, frame, wrote>>

\* A call of find_price_candidates
PriceFindCandidates ==
    /\ pc = "priceid"
    /\ \E price \in BasePrices, kind \in {"wand", "ring"},
          charisma \in {11, 18}, sucker \in {"None", "False", "True"},
          buying \in BOOLEAN :
         ran' = <<[NoCall EXCEPT
                     !.call = "find_price_candidates", !.price = price,
                     !.kind = kind, !.charisma = charisma,
                     !.sucker = sucker, !.buying = buying,
                     !.result = find_price_candidates(price, kind, charisma,
                                                      sucker, buying)]>>
    /\ pc' = "returned"
    /\ UNCHANGED <<args, monitor, disk, frame, wrote>>

\* A call of is_shk_greedy; the result is kept as a one-element list
PriceIsShkGreedy ==
    /\ pc = "priceid"
    /\ \E price \in {p \in 1..MaxPrice : p % 5 = 0}, kind \in {"wand", "ring"},
          sucker \in {"None", "False", "True"} :
         ran' = <<[NoCall EXCEPT
                     !.call = "is_shk_greedy", !.price = price,
                     !.kind = kind, !.sucker = sucker, !.buying = FALSE,
                     !.result = <<is_shk_greedy(price, kind, sucker)>>]>>
    /\ pc' = "returned"
    /\ UNCHANGED <<args, monitor, disk, frame, wrote>>

\* A call of abbreviate_items; the result is kept as a one-element list
PriceAbbreviate ==
    /\ pc = "priceid"
    /\ \E item_list \in AbbrevInputs, target_length \in 0..MaxLength :
         ran' = <<[NoCall EXCEPT
                     !.call = "abbreviate_items", !.item_list = item_list,
                     !.target_length = target_length,
                     !.result = <<abbreviate_items(item_list, target_length)>>]>>
    /\ pc' = "returned"
    /\ UNCHANGED <<args, monitor, disk, frame, wrote>>

\* The client takes the result
PriceReturn ==
    /\ pc = "returned"
    /\ pc' = "priceid"
    /\ ran' = <<>>
    /\ UNCHANGED <<args, monitor, disk, frame, wrote>>

PriceNext ==
    \/ PriceGuessBuying
    \/ PriceGuessSelling
    \/ PriceFindCandidates
    \/ PriceIsShkGreedy
    \/ PriceReturn

PriceSpec == PriceInit /\ [][PriceNext]_vars

\* The same client calling abbreviate_items
AbbrevNext ==
    \/ PriceAbbreviate
    \/ PriceReturn

AbbrevSpec == PriceInit /\ [][AbbrevNext]_vars

(***************************************************************************)
(* tmux.py: TmuxFrame.parse_curses_panes on its own.  A frame is the list  *)
(* of its lines and a line the list of its characters; the line-drawing    *)
(* characters are written by name.  Rows and columns count from 1.  Here   *)
(* pc is "frame" between calls and "parsed" after one; ran holds the boxes *)
(* drawn on the frame, the frame and the panes returned.                   *)
(***************************************************************************)
TopLeft == "top-left"

TopRight == "top-right"

BottomLeft == "bottom-left"

BottomRight == "bottom-right"

Horizontal == "horizontal"

Vertical == "vertical"

TeeDown == "tee-down"

TeeUp == "tee-up"

TeeRight == "tee-right"

TeeLeft == "tee-left"

\* padded_lines[r][c]: lines are padded with spaces to the same width
padded(lines, r, c) == IF c <= Len(lines[r]) THEN lines[r][c] ELSE " "

RECURSIVE max_width(_)
max_width(lines) ==
    IF lines = <<>> THEN 0 ELSE Max(Len(lines[1]), max_width(Tail(lines)))

\* The keys of `corners` in insertion order, row by row and left to right,
\* from the k-th cell on
RECURSIVE corner_positions(_, _)
corner_positions(lines, k) ==
    IF k > Len(lines) * max_width(lines) THEN <<>>
    ELSE LET r == (k - 1) \div max_width(lines) + 1
             c == ((k - 1) % max_width(lines)) + 1
         IN  (IF padded(lines, r, c) \in {TopLeft, TopRight, BottomLeft, BottomRight}
              THEN <<[r |-> r, c |-> c]>> ELSE <<>>)
             \o corner_positions(lines, k + 1)

\* Every character of the border cells is one of the valid ones
border_valid(lines, r1, c1, r2, c2) ==
    /\ \A c \in (c1 + 1)..(c2 - 1) : padded(lines, r1, c) \in {Horizontal, TeeDown}
    /\ \A c \in (c1 + 1)..(c2 - 1) : padded(lines, r2, c) \in {Horizontal, TeeUp}
    /\ \A r \in (r1 + 1)..(r2 - 1) : padded(lines, r, c1) \in {Vertical, TeeRight}
    /\ \A r \in (r1 + 1)..(r2 - 1) : padded(lines, r, c2) \in {Vertical, TeeLeft}

\* The loop over c2 for a top-left corner (r1, c1) and bottom-left corner
\* row r2: the boxes appended, none or one
RECURSIVE scan_right(_, _, _, _, _)
scan_right(lines, r1, c1, r2, c2) ==
    IF c2 > max_width(lines) THEN <<>>
    ELSE IF padded(lines, r1, c2) = Horizontal
    THEN scan_right(lines, r1, c1, r2, c2 + 1)
    ELSE IF padded(lines, r1, c2) = TopRight
    THEN IF padded(lines, r2, c2) = BottomRight
            /\ border_valid(lines, r1, c1, r2, c2)
         THEN <<[r1 |-> r1, c1 |-> c1, r2 |-> r2, c2 |-> c2]>>
         ELSE <<>>
    ELSE scan_right(lines, r1, c1, r2, c2 + 1)

\* The loop over r2 for a top-left corner (r1, c1)
RECURSIVE scan_down(_, _, _, _)
scan_down(lines, r1, c1, r2) ==
    IF r2 > Len(lines) THEN <<>>
    ELSE IF padded(lines, r2, c1) = Vertical
    THEN scan_down(lines, r1, c1, r2 + 1)
    ELSE IF padded(lines, r2, c1) = BottomLeft
    THEN scan_right(lines, r1, c1, r2, c1 + 1)
    ELSE scan_down(lines, r1, c1, r2 + 1)

\* `boxes`: the boxes of the top-left corners among the positions, in order
RECURSIVE find_boxes(_, _)
find_boxes(lines, positions) ==
    IF positions = <<>> THEN <<>>
    ELSE (IF padded(lines, positions[1].r, positions[1].c) # TopLeft THEN <<>>
          ELSE scan_down(lines, positions[1].r, positions[1].c, positions[1].r + 1))
         \o find_boxes(lines, Tail(positions))

is_nested(outer_box, inner_box) ==
    /\ outer_box.r1 < inner_box.r1 /\ outer_box.r2 > inner_box.r2
    /\ outer_box.c1 < inner_box.c1 /\ outer_box.c2 > inner_box.c2

filtered_boxes(boxes) ==
    LET keep == { i \in 1..Len(boxes) :
                    ~ \E j \in 1..Len(boxes) : i # j /\ is_nested(boxes[j], boxes[i]) }
    IN  [k \in 1..Cardinality(keep) |->
            boxes[CHOOSE i \in keep : Cardinality({j \in keep : j < i}) = k - 1]]

\* line.rstrip() for a line of spaces and other characters
RECURSIVE rstrip(_)
rstrip(line) ==
    IF line # <<>> /\ line[Len(line)] = " " THEN rstrip(SubSeq(line, 1, Len(line) - 1))
    ELSE line

\* The list without the empty lines at its end
RECURSIVE pop_empty(_)
pop_empty(content_lines) ==
    IF content_lines # <<>> /\ content_lines[Len(content_lines)] = <<>>
    THEN pop_empty(SubSeq(content_lines, 1, Len(content_lines) - 1))
    ELSE content_lines

\* "\n".join(content_lines), as a list of characters
RECURSIVE join_lines(_)
join_lines(content_lines) ==
    IF content_lines = <<>> THEN <<>>
    ELSE IF Len(content_lines) = 1 THEN content_lines[1]
    ELSE content_lines[1] \o <<"\n">> \o join_lines(Tail(content_lines))

\* The content cut out of one box
box_content(lines, box) ==
    join_lines(pop_empty(
        [k \in 1..(box.r2 - box.r1 - 1) |->
            rstrip([c \in 1..(box.c2 - box.c1 - 1) |->
                       padded(lines, box.r1 + k, box.c1 + c)])]))

\* content.strip() is not empty
not_blank(content) == \E k \in 1..Len(content) : content[k] \notin {" ", "\n"}

RECURSIVE box_results(_, _)
box_results(lines, boxes) ==
    IF boxes = <<>> THEN <<>>
    ELSE (IF not_blank(box_content(lines, boxes[1]))
          THEN <<box_content(lines, boxes[1])>> ELSE <<>>)
         \o box_results(lines, Tail(boxes))

\* The panes of a frame whose data.split('\n') is lines
parse_curses_panes(lines) ==
    IF lines = <<>> \/ lines[1] = <<>> THEN <<>>
    ELSE box_results(lines, filtered_boxes(find_boxes(lines, corner_positions(lines, 1))))

\* The rows and columns of the pane
MaxRows == 5

MaxCols == 7

\* The bordered rectangles that fit on the pane, with at least one interior
\* cell and at most three interior rows and columns
Rects ==
    { [r1 |-> r1, c1 |-> c1, r2 |-> r2, c2 |-> c2] :
        r1 \in 1..MaxRows, r2 \in 1..MaxRows, c1 \in 1..MaxCols, c2 \in 1..MaxCols }
    \cap { [r1 |-> r, c1 |-> c, r2 |-> r + h, c2 |-> c + w] :
             r \in 1..MaxRows, c \in 1..MaxCols, h \in 2..4, w \in 2..4 }

in_rect(box, r, c) == r \in box.r1..box.r2 /\ c \in box.c1..box.c2

\* No cell belongs to both rectangles, borders included
disjoint(a, b) == a.r2 < b.r1 \/ b.r2 < a.r1 \/ a.c2 < b.c1 \/ b.c2 < a.c1

\* a's top-left corner comes before b's: row first, then column
reads_before(a, b) == a.r1 < b.r1 \/ (a.r1 = b.r1 /\ a.c1 < b.c1)

\* The character of a rectangle drawn with the given text inside
drawn(box, text, r, c) ==
    IF r = box.r1 /\ c = box.c1 THEN TopLeft
    ELSE IF r = box.r1 /\ c = box.c2 THEN TopRight
    ELSE IF r = box.r2 /\ c = box.c1 THEN BottomLeft
    ELSE IF r = box.r2 /\ c = box.c2 THEN BottomRight
    ELSE IF r \in {box.r1, box.r2} THEN Horizontal
    ELSE IF c \in {box.c1, box.c2} THEN Vertical
    ELSE text

\* The screen with rectangle a and, over it, rectangle b; as tmux captures
\* it, without the spaces at the end of the lines
capture(a, ta, b, tb) ==
    [r \in 1..MaxRows |->
        rstrip([c \in 1..MaxCols |->
                   IF in_rect(b, r, c) THEN drawn(b, tb, r, c)
                   ELSE IF in_rect(a, r, c) THEN drawn(a, ta, r, c)
                   ELSE " "])]

BoxInit ==
    /\ args = [targetpane |-> "dungeon", auto_elbereth |-> FALSE,
               aligned_turnlimit |-> FALSE, turnlimit |-> 0,
               abbreviation_length |-> 60, persistence |-> ""]
    /\ disk = NoFile
    /\ monitor = NHMonitor(args, BlankFrame, disk)
    /\ pc = "frame"
    /\ frame = BlankFrame
    /\ ran = <<>>
    /\ wrote = "none"

\* A call of parse_curses_panes on a frame showing two rectangles, apart
\* from each other or the second inside the first
BoxParse ==
    /\ pc = "frame"
    /\ \E a \in Rects, b \in Rects, ta \in {" ", "a"}, tb \in {" ", "b"} :
         /\ reads_before(a, b)
         /\ disjoint(a, b) \/ is_nested(a, b)
         /\ ran' = <<[call |-> "parse_curses_panes", boxes |-> <<a, b>>,
                      lines |-> capture(a, ta, b, tb),
                      result |-> parse_curses_panes(capture(a, ta, b, tb))]>>
    /\ pc' = "parsed"
    /\ UNCHANGED <<args, monitor, disk, frame, wrote>>

\* The client takes the panes
BoxReturn ==
    /\ pc = "parsed"
    /\ pc' = "frame"
    /\ ran' = <<>>
    /\ UNCHANGED <<args, monitor, disk, frame, wrote>>

BoxNext ==
    \/ BoxParse
    \/ BoxReturn

BoxSpec == BoxInit /\ [][BoxNext]_vars

(***************************************************************************)
(* A session resumed from a persistence file that flags the character as   *)
(* a tourist (persistence_load reads the flag; no step of find_stats sets  *)
(* it)                                                                     *)
(***************************************************************************)
TouristArgs ==
    [targetpane |-> "tourist", auto_elbereth |-> FALSE,
     aligned_turnlimit |-> FALSE, turnlimit |-> 0,
     abbreviation_length |-> 60, persistence |-> PersistencePath]

\* The files an earlier session left
TouristFiles ==
    { [exists |-> TRUE, price_id |-> EmptyDict, known_items |-> EmptyDict,
       charisma |-> 11, xplevel |-> x, sucker |-> s, tourist |-> TRUE] :
        x \in {14, 16}, s \in BOOLEAN }

TouristInit ==
    /\ args = TouristArgs
    /\ disk \in TouristFiles
    /\ \E f \in Captures(args.targetpane) : monitor = NHMonitor(args, f, disk)
    /\ pc = "loop"
    /\ frame = BlankFrame
    /\ ran = <<>>
    /\ wrote = "none"

TouristNext ==
    \/ TickStart
    \/ NoHandler
    \/ HandleExtcmd

TouristSpec == TouristInit /\ [][TouristNext]_vars

(***************************************************************************)
(* The wait-one-turn protocol on its own (EwaitSpec): a session in which   *)
(* the only handler that acts is ewait.  Every wait_chg of the protocol    *)
(* returns (weak fairness of its steps), and the game shows at most        *)
(* MaxMore --More-- prompts in one run of it (EwaitChanged).               *)
(***************************************************************************)
ElberethArgs ==
    [targetpane |-> "elbereth", auto_elbereth |-> FALSE,
     aligned_turnlimit |-> FALSE, turnlimit |-> 0,
     abbreviation_length |-> 60, persistence |-> ""]

EwaitInit ==
    /\ args = ElberethArgs
    /\ disk = NoFile
    /\ \E f \in Captures(args.targetpane) : monitor = NHMonitor(args, f, disk)
    /\ pc = "loop"
    /\ frame = BlankFrame
    /\ ran = <<>>
    /\ wrote = "none"

\* The steps of ewait: its first key and each of its waits
EwaitRuns ==
    \/ Ewait
    \/ EwaitLook
    \/ EwaitSkipMoreRest
    \/ EwaitRest
    \/ EwaitLookAgain
    \/ EwaitEngrave
    \/ EwaitFinger
    \/ EwaitAdd
    \/ EwaitSkipMoreWrite
    \/ EwaitWrite

EwaitNext ==
    \/ TickStart
    \/ NoHandler
    \/ EwaitRuns

EwaitSpec == EwaitInit /\ [][EwaitNext]_vars /\ WF_vars(EwaitRuns)

Next ==
    \/ Rebuild
    \/ TickStart
    \/ NoHandler
    \/ Death
    \/ WriteEword
    \/ WriteEword1
    \/ WriteEword2
    \/ WriteEword3
    \/ Ewait
    \/ EwaitLook
    \/ EwaitSkipMoreRest
    \/ EwaitRest
    \/ EwaitLookAgain
    \/ EwaitEngrave
    \/ EwaitFinger
    \/ EwaitAdd
    \/ EwaitSkipMoreWrite
    \/ EwaitWrite
    \/ HandleExtcmd
    \/ ItemForSale
    \/ ItemForSaleWait
    \/ ItemToSell
    \/ ItemToSellWait
    \/ DispatchPriceId
    \/ DispatchPriceIdWait

Spec == Init /\ [][Next]_vars

\* The main loop keeps calling process_frame, and the game keeps redrawing
\* the screen a handler waits for: a step that can be taken is taken.
FairSpec == Spec /\ WF_vars(Next)

(***************************************************************************)
(* Properties of the program                                               *)
(***************************************************************************)
\* The keys were sent in the current tick
Typed(m, keys) == \E i \in 1..Len(m.tmux.sent) : m.tmux.sent[i].keys = keys

\* A step that starts a tick (persistence_save, get_frame, find_stats)
StartsTick == pc = "loop" /\ pc' = "dispatch"

\* A step of process_frame, as opposed to the main loop building a new
\* monitor after a reset
TickStep == ~(pc = "loop" /\ monitor.reset)

HandlerOrder ==
    << "death", "write_eword", "ewait", "handle_extcmd", "item_for_sale",
       "item_to_sell", "dispatch_price_id" >>

\* The condition under which process_frame lets the handler act
Matches(handler) ==
    LET cached == monitor.tmux.prev_frame
    IN  CASE handler = "death" -> DYWYPI \in frame.text
          [] handler = "write_eword" -> DustMessage \in frame.text /\ monitor.autoeword
          [] handler = "ewait" -> WizdetectMessage \in frame.text
          [] handler = "handle_extcmd" ->
                frame.first_line \in {"# sucker", "# !sucker", "# reset"}
          [] handler = "item_for_sale" -> cached.sale # NoSale
          [] handler = "item_to_sell" -> cached.offer # NoOffer
          [] handler = "dispatch_price_id" ->
                \E item \in DOMAIN monitor.price_id :
                    /\ ~monitor.price_id[item].item_called
                    /\ \/ startswith(cached.first_line, "Call a " \o item \o ":  ")
                       \/ startswith(cached.first_line, "Call an " \o item \o ":  ")

Matching == { i \in 1..Len(HandlerOrder) : Matches(HandlerOrder[i]) }

\* C1: in a tick that reaches the handler stage while SYNCED, the handler
\* that acts is the first of the seven, in priority order, whose condition
\* matches, and no other handler acts in that tick (none acts when no
\* condition matches or the tracker is UNSYNCED).
C1_FirstMatchingHandlerOnly ==
    [][ /\ pc = "dispatch" =>
             ran' = IF monitor.state = "sync" /\ Matching # {}
                    THEN << HandlerOrder[CHOOSE i \in Matching :
                                            \A j \in Matching : i <= j] >>
                    ELSE << >>
        /\ pc \notin {"loop", "dispatch"} => ran' = ran
        /\ Len(ran') <= 1 ]_vars

\* A tick in which auto-engrave acted although the wait-one-turn marker
\* was on screen too, or the purchase handler although an offer was shown
C1_Witness ==
    \/ /\ ran = <<"write_eword">>
       /\ WizdetectMessage \in frame.text
    \/ /\ ran = <<"item_for_sale">>
       /\ frame.offer # NoOffer

\* C2: a death marker handled while SYNCED leaves the tracker UNSYNCED,
\* the persistence file gone and the process ended.
C2_DeathDiscardsAndEnds ==
    [][ pc = "dispatch" /\ monitor.state = "sync" /\ DYWYPI \in frame.text =>
            /\ monitor'.state = "init"
            /\ disk' = NoFile
            /\ pc' \in Ended ]_vars

\* A step of a tick changes the sync state to SYNCED when it parses a turn
\* counter while the stored turn is unknown
ParsesFirstTurn == StartsTick /\ frame'.cont # NoCont /\ monitor.turn = NoneInt

\* C3: a step of a tick takes the tracker from UNSYNCED to SYNCED exactly
\* when it parses a turn counter while the stored turn is unknown, and from
\* SYNCED to UNSYNCED only when it handles the death marker or confirms
\* the autosave prompt.
C3_SyncStateTransitions ==
    [][ TickStep =>
          /\ ParsesFirstTurn => monitor'.state = "sync"
          /\ monitor.state = "init" /\ monitor'.state = "sync" => ParsesFirstTurn
          /\ monitor.state = "sync" /\ monitor'.state = "init" =>
                \/ pc = "dispatch" /\ DYWYPI \in frame.text /\ ran' = <<"death">>
                \/ StartsTick /\ Typed(monitor', <<"y">>) ]_vars

\* The autosave prompt was confirmed in this tick and the tracker is UNSYNCED
C3_Witness ==
    /\ pc = "dispatch"
    /\ monitor.state = "init"
    /\ Typed(monitor, <<"S">>)
    /\ Typed(monitor, <<"y">>)

\* A tracker configured with budget b, before its first tick
C4_Tracker(b, aligned) ==
    NHMonitor([targetpane |-> "status", auto_elbereth |-> FALSE,
               aligned_turnlimit |-> aligned, turnlimit |-> b,
               abbreviation_length |-> 60, persistence |-> ""],
              BlankFrame, NoFile)

\* The threshold after set_turn(t) on such a tracker
C4_Threshold(b, aligned, t) ==
    set_turn(C4_Tracker(b, aligned), t, BlankFrame).stop_on_turn

\* C4: when a tick takes the tracker from UNSYNCED to SYNCED at parsed
\* turn t with budget b > 0, the threshold becomes t + b in unaligned mode
\* and the smallest multiple of b above t in aligned mode; it is above t
\* and at most t + b.  With b = 500: t = 733 gives 1233 and 1000, and
\* t = 1000 aligned gives 1500.
C4_ThresholdOnSync ==
    [][ /\ C4_Threshold(500, FALSE, 733) = 1233
        /\ C4_Threshold(500, TRUE, 733) = 1000
        /\ C4_Threshold(500, TRUE, 1000) = 1500
        /\ ( /\ StartsTick
             /\ monitor.state = "init"
             /\ monitor'.state = "sync"
             /\ monitor.turnlimit > 0 ) =>
               LET t == frame'.cont.turn
                   b == monitor.turnlimit
                   threshold == monitor'.stop_on_turn
               IN  /\ threshold > t
                   /\ threshold <= t + b
                   /\ ~monitor.aligned_turnlimit => threshold = t + b
                   /\ monitor.aligned_turnlimit =>
                         /\ threshold % b = 0
                         /\ \A n \in (t + 1)..(threshold - 1) : n % b # 0 ]_vars

\* The tracker synced on a turn that is a multiple of its budget; the
\* aligned threshold is the next multiple
C4_Witness ==
    /\ pc = "dispatch"
    /\ monitor.state = "sync"
    /\ monitor.aligned_turnlimit
    /\ monitor.turnlimit = 2
    /\ monitor.turn = 2
    /\ frame.cont.turn = 2
    /\ monitor.stop_on_turn = 4

\* C5: a tick that parses a turn counter at or past the non-zero threshold,
\* the stored turn still being below it, sends the save command; when the
\* save is confirmed, the tick ends with the stored turn unknown, the
\* tracker UNSYNCED and no handler run.
C5_AutosaveAtThreshold ==
    [][ /\ ( /\ StartsTick
             /\ monitor.stop_on_turn # 0
             /\ monitor.turn # NoneInt
             /\ monitor.turn < monitor.stop_on_turn
             /\ frame'.cont # NoCont
             /\ frame'.cont.turn >= monitor.stop_on_turn ) =>
               /\ monitor'.tmux.sent # << >>
               /\ monitor'.tmux.sent[1].keys = <<"S">>
               /\ monitor'.tmux.sent[1].state = "sync"
        /\ ( /\ pc = "dispatch"
             /\ Typed(monitor, <<"y">>) ) =>
               /\ pc' = "loop"
               /\ ran' = << >>
               /\ monitor'.turn = NoneInt
               /\ monitor'.state = "init" ]_vars

\* The save was confirmed in a tick whose screen shows the death marker:
\* the tick is about to end without the death handler
C5_Witness ==
    /\ pc = "dispatch"
    /\ DYWYPI \in frame.text
    /\ Typed(monitor, <<"y">>)
    /\ monitor.turn = NoneInt
    /\ monitor.stop_on_turn # 0
    /\ ran = << >>

\* The latest tick issued the save command and the prompt did not appear
C6_Failed == Typed(monitor, <<"S">>) /\ ~Typed(monitor, <<"y">>)

\* C6 as stated: after a failed autosave attempt, a tick that parses a
\* turn counter at or past the threshold issues the save command again,
\* whether or not the counter has advanced since the failed attempt.
C6_RetriedWhileAtThreshold ==
    [][ ( /\ StartsTick
          /\ monitor.state = "sync"
          /\ monitor.turn # NoneInt
          /\ monitor.stop_on_turn # 0
          /\ monitor.turn >= monitor.stop_on_turn
          /\ frame'.cont # NoCont
          /\ frame'.cont.turn >= monitor.stop_on_turn ) =>
            Typed(monitor', <<"S">>) ]_vars

\* C6: a failed autosave attempt leaves the tracker SYNCED with the parsed
\* turn stored; from then on a tick issues the save command exactly when it
\* parses a turn counter at or past the threshold that differs from the
\* stored one.
C6_RetryWhenTurnChanges ==
    [][ /\ StartsTick /\ C6_Failed' =>
              /\ monitor'.state = "sync"
              /\ monitor'.turn = frame'.cont.turn
              /\ monitor'.stop_on_turn # 0
              /\ monitor'.turn >= monitor'.stop_on_turn
        /\ ( /\ StartsTick
             /\ monitor.turn # NoneInt
             /\ monitor.stop_on_turn # 0
             /\ monitor.turn >= monitor.stop_on_turn ) =>
               ( Typed(monitor', <<"S">>) <=>
                    /\ frame'.cont # NoCont
                    /\ frame'.cont.turn >= monitor.stop_on_turn
                    /\ frame'.cont.turn # monitor.turn ) ]_vars

\* After a failed attempt a tick parsed the same turn again and issued
\* nothing
C6_Witness ==
    /\ pc = "dispatch"
    /\ monitor.state = "sync"
    /\ monitor.stop_on_turn # 0
    /\ frame.cont # NoCont
    /\ frame.cont.turn = monitor.turn
    /\ monitor.turn >= monitor.stop_on_turn
    /\ monitor.tmux.sent = << >>

\* C7: within the life of a tracker the persistence file is written only
\* by the step that starts a tick and only when the dirty flag is set; the
\* dirty flag is cleared only by a write that succeeded, and a write that
\* failed leaves it set (and the file as it was).
C7_WriteOnlyWhenDirty ==
    [][ TickStep =>
          /\ StartsTick /\ wrote' # "none" => monitor.dirty
          /\ wrote' # wrote => StartsTick
          /\ disk' # disk =>
                \/ disk' = NoFile
                \/ /\ StartsTick
                   /\ wrote' = "ok"
                   /\ monitor.dirty
                   /\ disk' = persistence_data(monitor)
          /\ monitor.dirty /\ ~monitor'.dirty => StartsTick /\ wrote' = "ok"
          /\ StartsTick /\ wrote' = "OSError" =>
                monitor'.dirty /\ disk' = disk ]_vars

\* A write failed at the start of this tick and the dirty flag is still set
C7_Witness ==
    /\ pc = "dispatch"
    /\ wrote = "OSError"
    /\ monitor.dirty
    /\ monitor.persistence_file = ""

\* C8: once a persistence write has failed, no later tick fails because
\* persistence is disabled.
C8_NoFailureOncePersistenceDisabled ==
    (args.persistence # "" /\ monitor.persistence_file = "") =>
        pc # "TypeError"

\* The candidates of the observation the handler at the dispatch stage is
\* about to make: << >> too when the item is not a known appearance
ObservedCandidates ==
    LET buying == dispatch(monitor, frame) = "item_for_sale"
        sale == monitor.tmux.prev_frame.sale
        offer == monitor.tmux.prev_frame.offer
        item == IF buying THEN for_sale_item(sale) ELSE offer.item
        price == IF buying THEN for_sale_price(sale) ELSE offer.price
        found == lookup_item(item)
    IN  [item |-> item,
         candidates |->
            IF found = NotFound \/ found.kind \notin DOMAIN COST_TABLES
            THEN << >>
            ELSE list_filter(find_price_candidates(price, found.kind,
                                                   monitor.charisma,
                                                   PyBool(monitor.sucker), buying),
                             DOMAIN monitor.known_items)]

\* A price observation is about to be made
Observing ==
    /\ pc = "dispatch"
    /\ dispatch(monitor, frame) \in {"item_for_sale", "item_to_sell"}

\* C9: every price-identification record has a non-empty candidate list,
\* and an observation whose candidate list is empty leaves the records
\* as they are.
C9_CandidatesNeverEmpty ==
    /\ [](\A item \in DOMAIN monitor.price_id :
             monitor.price_id[item].candidates # << >>)
    /\ [][ Observing /\ ObservedCandidates.candidates = << >> =>
              monitor'.price_id = monitor.price_id ]_vars

\* An item that has a record was seen at a price no catalog entry of its
\* kind matches, and the record is still there
C9_Witness ==
    /\ pc = "item_for_sale.wait_chg"
    /\ "old gloves" \in DOMAIN monitor.price_id
    /\ monitor.tmux.prev_frame.sale.item = "old gloves"
    /\ purchase_candidates(monitor, "gloves",
                           for_sale_price(monitor.tmux.prev_frame.sale), TRUE) = << >>

\* C10: an observation for an item that has a record, with a candidate set
\* different from the stored one, replaces the record: its candidates are
\* the observation's, its label the one computed from them, its called
\* flag false.
C10_RecordReplaced ==
    [][ ( /\ Observing
          /\ ObservedCandidates.item \in DOMAIN monitor.price_id
          /\ ObservedCandidates.candidates # << >>
          /\ Range(ObservedCandidates.candidates)
               # Range(monitor.price_id[ObservedCandidates.item].candidates) ) =>
            LET new == ObservedCandidates.candidates
            IN  monitor'.price_id[ObservedCandidates.item] =
                  [short_name |-> IF Len(new) = 1 THEN new[1]
                                  ELSE abbreviate_items(new, monitor.max_abbrev_length),
                   candidates |-> new,
                   item_called |-> FALSE] ]_vars

\* The record for "old gloves" held leather gloves (now a known item) and
\* was replaced by the three gauntlets of a later observation
C10_Witness ==
    /\ pc = "item_for_sale.wait_chg"
    /\ "leather gloves" \in DOMAIN monitor.known_items
    /\ "old gloves" \in DOMAIN monitor.price_id
    /\ Len(monitor.price_id["old gloves"].candidates) = 3
    /\ ~monitor.price_id["old gloves"].item_called
    /\ monitor.tmux.prev_frame.sale.price = 50

\* The step types a label: the keys it sends are a name and Enter
TypesLabel ==
    /\ monitor'.tmux.sent # monitor.tmux.sent
    /\ monitor'.tmux.sent # << >>
    /\ LET keys == monitor'.tmux.sent[Len(monitor'.tmux.sent)].keys
       IN  Len(keys) = 2 /\ keys[2] = "C-m"

\* C11: a step types a label for an item only when the naming prompt is
\* open for it and its record exists with the called flag false; it types
\* the label of that record and sets the flag.  Within the life of a
\* tracker no record is removed, and a called flag goes back to false only
\* when an observation with a different candidate set replaces the record:
\* so this happened between any two typings for the same item.
C11_LabelTypedOncePerRecord ==
    [][ TickStep =>
          /\ TypesLabel =>
                LET item == check_call_prompt(monitor)
                IN  /\ pc = "dispatch"
                    /\ ran' = Append(ran, "dispatch_price_id")
                    /\ item \in DOMAIN monitor.price_id
                    /\ ~monitor.price_id[item].item_called
                    /\ monitor'.tmux.sent =
                          Append(monitor.tmux.sent,
                                 [keys |-> <<monitor.price_id[item].short_name, "C-m">>,
                                  state |-> monitor.state])
                    /\ monitor'.price_id =
                          [monitor.price_id EXCEPT ![item].item_called = TRUE]
          /\ pc = "dispatch" /\ ran' = Append(ran, "dispatch_price_id") => TypesLabel
          /\ \A item \in DOMAIN monitor.price_id :
                /\ item \in DOMAIN monitor'.price_id
                /\ ( monitor.price_id[item].item_called
                      /\ ~monitor'.price_id[item].item_called ) =>
                        /\ Observing
                        /\ ObservedCandidates.item = item
                        /\ monitor'.price_id[item].candidates
                              = ObservedCandidates.candidates
                        /\ Range(ObservedCandidates.candidates)
                              # Range(monitor.price_id[item].candidates) ]_vars

\* The abbreviated label of the three gauntlets was typed into the naming
\* prompt for "old gloves", whose record is now marked called
C11_Witness ==
    /\ pc = "dispatch_price_id.wait_chg"
    /\ monitor.max_abbrev_length = 12
    /\ Typed(monitor, <<"Dex/Fum/Pow", "C-m">>)
    /\ monitor.price_id["old gloves"].item_called
    /\ Len(monitor.price_id["old gloves"].candidates) = 3

\* The step stores a record for the item: the candidate list handed to
\* learning, when it differs from the stored one
Learns(item) ==
    /\ item \in DOMAIN monitor'.price_id
    /\ item \in DOMAIN monitor.price_id =>
          monitor'.price_id[item].candidates # monitor.price_id[item].candidates

\* C12: an observation that yields exactly one identity records it as a
\* known item; within the life of a tracker a known item stays known, and
\* no candidate list a later observation hands to learning holds a known
\* item.
C12_KnownIdentityExcluded ==
    [][ TickStep =>
          /\ Observing /\ Len(ObservedCandidates.candidates) = 1 =>
                ObservedCandidates.candidates[1] \in DOMAIN monitor'.known_items
          /\ DOMAIN monitor.known_items \subseteq DOMAIN monitor'.known_items
          /\ \A item \in DOMAIN monitor'.price_id :
                Learns(item) =>
                  /\ Observing
                  /\ Range(monitor'.price_id[item].candidates)
                        \cap DOMAIN monitor.known_items = {} ]_vars

\* Leather gloves are known, the record for "old gloves" was replaced by
\* the three gauntlets, and the item was seen again at the price of leather
\* gloves: nothing was handed to learning
C12_Witness ==
    /\ pc = "item_for_sale.wait_chg"
    /\ monitor.tmux.prev_frame.sale.item = "old gloves"
    /\ for_sale_price(monitor.tmux.prev_frame.sale) = 8
    /\ "leather gloves" \in DOMAIN monitor.known_items
    /\ monitor.price_id["old gloves"].candidates
          = <<"gauntlets of dexterity", "gauntlets of fumbling", "gauntlets of power">>

\* C13 as stated: after an item with appearance A is uniquely identified
\* as identity I, the known items hold the entry with key A and value I.
C13_KeyedByAppearance ==
    [][ TickStep /\ Observing /\ Len(ObservedCandidates.candidates) = 1 =>
          LET A == lookup_item(ObservedCandidates.item).appearance
              I == ObservedCandidates.candidates[1]
          IN  /\ A \in DOMAIN monitor'.known_items
              /\ monitor'.known_items[A] = I ]_vars

\* C13: after an item with appearance A is uniquely identified as identity
\* I, the known items hold the entry with key I and value A and no entry
\* with key A; the persisted known_items is the map as it was when the file
\* was written.
C13_KeyedByIdentity ==
    [][ TickStep =>
          /\ Observing /\ Len(ObservedCandidates.candidates) = 1 =>
                LET A == lookup_item(ObservedCandidates.item).appearance
                    I == ObservedCandidates.candidates[1]
                IN  /\ I \in DOMAIN monitor'.known_items
                    /\ monitor'.known_items[I] = A
                    /\ A \notin DOMAIN monitor'.known_items
          /\ StartsTick /\ wrote' = "ok" =>
                disk'.known_items = monitor.known_items ]_vars

\* "old gloves" were identified as leather gloves and the file was
\* written: it holds the identity as the key and the appearance as the value
C13_Witness ==
    /\ disk.exists
    /\ wrote = "ok"
    /\ DOMAIN disk.known_items = {"leather gloves"}
    /\ disk.known_items["leather gloves"] = "old"
    /\ monitor.known_items = disk.known_items

\* C14: a known item is removed, or its value changed, by no step of a
\* tracker's life: the entries go only when the main loop replaces the
\* tracker after the reset command.
C14_KnownItemsAppendOnly ==
    [][ /\ TickStep =>
             \A identity \in DOMAIN monitor.known_items :
                /\ identity \in DOMAIN monitor'.known_items
                /\ monitor'.known_items[identity] = monitor.known_items[identity]
        /\ ~(DOMAIN monitor.known_items \subseteq DOMAIN monitor'.known_items) =>
             /\ monitor.reset
             /\ Typed(monitor, <<"Escape", "Escape">>)
             /\ monitor'.known_items = EmptyDict ]_vars

\* The reset command was handled by a tracker that knows leather gloves:
\* the file is gone and the main loop is about to replace the tracker
C14_Witness ==
    /\ pc = "loop"
    /\ monitor.reset
    /\ "leather gloves" \in DOMAIN monitor.known_items
    /\ monitor.known_items["leather gloves"] = "old"
    /\ disk = NoFile

\* C15: a tick of a tracker in its default state (tourist flag false) that
\* parses a status line whose rank is a low tourist rank, and does not
\* autosave, sets the tourist flag.
C15_LowRankSetsTourist ==
    [][ ( /\ StartsTick
          /\ ~monitor.tourist
          /\ monitor'.tmux.sent = << >>
          /\ frame'.stat # NoStat
          /\ frame'.stat.rank \in TOURIST_LOW_LEVEL ) =>
            monitor'.tourist ]_vars

\* The step handles the control word cmd of the extended-command prompt
Handles(cmd) ==
    /\ pc = "dispatch"
    /\ dispatch(monitor, frame) = "handle_extcmd"
    /\ read_extcmd(frame).cmd = cmd

\* C16: while the tourist flag is false, a step of a tick changes the
\* sucker flag only when it handles the control word "sucker" or
\* "!sucker"; handling "sucker" sets the flag, handling "!sucker" clears
\* it, and the step that parses the status lines leaves it alone.
C16_SuckerOnlyByControlWord ==
    [][ TickStep /\ ~monitor.tourist =>
          /\ monitor'.sucker # monitor.sucker =>
                Handles("sucker") \/ Handles("!sucker")
          /\ Handles("sucker") => monitor'.sucker
          /\ Handles("!sucker") => ~monitor'.sucker
          /\ StartsTick => monitor'.sucker = monitor.sucker ]_vars

\* A character below experience level 15 whose tourist flag is false was
\* made a sucker by the control word, and a later tick parsed its status
\* lines
C16_Witness ==
    /\ pc = "dispatch"
    /\ ~monitor.tourist
    /\ monitor.sucker
    /\ frame.stat # NoStat
    /\ frame.cont # NoCont
    /\ monitor.xplevel < 15

\* C17: a step that handles the control word "reset" sends the keys that
\* dismiss the prompt and ends the tick with the reset flag set, and the
\* tracker the main loop then builds is UNSYNCED without price
\* identifications and known items; whether or not a persistence file is
\* configured or exists.
C17_ResetRebuilds ==
    [][ /\ Handles("reset") =>
             /\ pc' = "loop"
             /\ monitor'.reset
             /\ Typed(monitor', <<"Escape", "Escape">>)
        /\ pc = "loop" /\ monitor.reset =>
             /\ monitor'.state = "init"
             /\ monitor'.price_id = EmptyDict
             /\ monitor'.known_items = EmptyDict ]_vars

\* A step of wait_chg's loop that captured the screen
Captured == pc = "wait_chg.capture" /\ pc' # "TmuxError"

\* C18: wait_chg returns only in a step whose captured frame differs from
\* the cached one, and that step caches the frame it returns; a step whose
\* captured frame equals the cached one leaves the cache alone and goes on
\* waiting.
C18_ReturnsChangedFrame ==
    [][ /\ Captured /\ frame' = monitor.tmux.prev_frame =>
             /\ pc' \in {"wait_chg.wait_for", "wait_chg.capture"}
             /\ monitor' = monitor
        /\ Captured /\ frame' # monitor.tmux.prev_frame =>
             /\ pc' = "tmux"
             /\ monitor'.tmux.prev_frame = frame'
        /\ pc # "tmux" /\ pc' = "tmux" =>
             /\ Captured
             /\ frame' # monitor.tmux.prev_frame
             /\ monitor'.tmux.prev_frame = frame'
        /\ pc \in {"wait_chg.wait_for", "wait_chg.capture"} /\ pc' # "tmux" =>
             monitor'.tmux.prev_frame = monitor.tmux.prev_frame ]_vars

\* wait_chg captured the cached screen twice, slept, and then returned the
\* save prompt, which is now the cached frame
C18_Witness ==
    /\ pc = "tmux"
    /\ Len(ran) = 3
    /\ ran[1].call = "wait_chg"
    /\ ran[3].call = "sleep"
    /\ ReallySave \in frame.text
    /\ monitor.tmux.prev_frame = frame

\* C19: wait_chg does not fail when the wait-for command fails.
C19_FallsBackToPolling == pc # "CalledProcessError"

\* C20: send_keys called with an empty list raises ValueError and sends
\* nothing; called with keys while the tmux command fails, it raises
\* TmuxError; otherwise the keys reach the pane.
C20_SendKeysErrors ==
    [][ pc = "tmux" /\ ran' # << >> /\ ran'[1].call = "send_keys" =>
          LET k == ran'[1].keys
              keys == IF k.is_str THEN <<k.str>> ELSE k.list
          IN  /\ keys = << >> =>
                   /\ pc' = "ValueError"
                   /\ monitor'.tmux.sent = monitor.tmux.sent
              /\ keys # << >> /\ ~ran'[1].delivered => pc' = "TmuxError"
              /\ keys # << >> /\ ran'[1].delivered =>
                   /\ pc' = "tmux"
                   /\ monitor'.tmux.sent =
                        Append(monitor.tmux.sent,
                               [keys |-> keys, state |-> monitor.state]) ]_vars

\* After "S" had reached the pane, send_keys was called with an empty list:
\* it raised ValueError and the pane got nothing more
C20_Witness ==
    /\ pc = "ValueError"
    /\ ran[1].call = "send_keys"
    /\ ran[1].keys = NoKeys
    /\ Len(monitor.tmux.sent) = 1
    /\ monitor.tmux.sent[1].keys = <<"S">>

\* The keys of this tick's send_keys calls, in order
KeysSent(m) == [i \in 1..Len(m.tmux.sent) |-> m.tmux.sent[i].keys]

\* The calls after the first look command
RECURSIVE after_look(_)
after_look(calls) ==
    IF calls = << >> THEN << >>
    ELSE IF Head(calls) = <<":">> THEN Tail(calls)
    ELSE after_look(Tail(calls))

\* The first n calls all dismiss a prompt
AllEnter(calls, n) == \A i \in 1..n : calls[i] = <<"C-m">>

\* C21: when the look result reads "Elbereth", the protocol dismisses the
\* --More-- prompts, sends one rest action and no engrave command; when the
\* game asks whether the player is waiting to get hit, it returns without
\* another key.
C21_EngravedBranchRests ==
    /\ [] ( LET calls == after_look(KeysSent(monitor))
                n == Len(calls)
            IN  /\ pc = "ewait.look" =>
                     \A f \in EwaitChanged(monitor) :
                        in_frame(ReadElbereth, f) =>
                          ewait_step(pc, f).next
                            = IF in_frame(MorePrompt, f) THEN "ewait.skip_more_rest"
                              ELSE "ewait.rest"
                /\ pc = "ewait.skip_more_rest" => n >= 1 /\ AllEnter(calls, n)
                /\ pc = "ewait.rest" =>
                     /\ n >= 1 /\ calls[n] = <<".">> /\ AllEnter(calls, n - 1)
                     /\ \A f \in EwaitChanged(monitor) :
                           in_frame(WaitingToGetHit, f) =>
                             ewait_step(pc, f) = [keys |-> << >>, next |-> ""]
                /\ pc = "ewait.look_again" =>
                     /\ n >= 2 /\ calls[n] = <<":">> /\ calls[n - 1] = <<".">>
                     /\ AllEnter(calls, n - 2) )
    /\ [][ /\ pc \in {"ewait.look", "ewait.skip_more_rest"}
             /\ pc' \in {"ewait.skip_more_rest", "ewait.rest"} =>
                  IF in_frame(MorePrompt, monitor'.tmux.prev_frame)
                  THEN /\ pc' = "ewait.skip_more_rest"
                       /\ monitor'.tmux.sent
                            = Append(monitor.tmux.sent,
                                     [keys |-> <<"C-m">>, state |-> monitor.state])
                  ELSE /\ pc' = "ewait.rest"
                       /\ monitor'.tmux.sent
                            = Append(monitor.tmux.sent,
                                     [keys |-> <<".">>, state |-> monitor.state])
           /\ pc = "ewait.look" /\ pc' \in {"ewait.skip_more_rest", "ewait.rest"} =>
                  in_frame(ReadElbereth, monitor'.tmux.prev_frame)
           /\ pc = "ewait.rest" =>
                  \/ pc' = "loop" /\ monitor'.tmux.sent = monitor.tmux.sent
                  \/ /\ pc' = "ewait.look_again"
                     /\ ~in_frame(WaitingToGetHit, monitor'.tmux.prev_frame)
                     /\ monitor'.tmux.sent
                          = Append(monitor.tmux.sent,
                                   [keys |-> <<":">>, state |-> monitor.state])
           /\ pc = "ewait.look_again" =>
                  /\ pc' = "loop"
                  /\ \/ monitor'.tmux.sent = monitor.tmux.sent
                     \/ monitor'.tmux.sent
                          = Append(monitor.tmux.sent,
                                   [keys |-> <<"C-m">>, state |-> monitor.state])
         ]_vars

\* The look result read "Elbereth" behind a prompt; the prompt was
\* dismissed, the rest action was sent and refused, and the tick ended
C21_Witness ==
    /\ pc = "loop"
    /\ ran = <<"ewait">>
    /\ KeysSent(monitor) = << <<":">>, <<"C-m">>, <<".">> >>

\* The calls from the engrave command on
RECURSIVE from_engrave(_)
from_engrave(calls) ==
    IF calls = << >> \/ Head(calls) = <<"E">> THEN calls
    ELSE from_engrave(Tail(calls))

\* The calls are: engrave, finger, "n" if declined, and then only
\* dismissals up to call n
Engraves(calls, declined, n) ==
    /\ n >= (IF declined THEN 3 ELSE 2)
    /\ Len(calls) >= n
    /\ calls[1] = <<"E">>
    /\ calls[2] = <<"-">>
    /\ declined => calls[3] = <<"n">>
    /\ \A i \in (IF declined THEN 4 ELSE 3)..n : calls[i] = <<"C-m">>

\* The step sends keys and nothing else
Sends(keys) ==
    monitor'.tmux.sent
      = Append(monitor.tmux.sent, [keys |-> keys, state |-> monitor.state])

\* C22: when the look result shows another engraving or none, the keys go
\* out in this order: the engrave command, the finger, "n" exactly when
\* the add-to-engraving prompt appeared, Enter for each --More-- prompt in
\* a row, the word, and Enter (followed by a look command); the rest
\* action is not among them.
C22_ReengraveOrder ==
    /\ [] ( LET looked == after_look(KeysSent(monitor))
                calls == from_engrave(looked)
                n == Len(calls)
            IN  /\ pc = "ewait.look" =>
                     \A f \in EwaitChanged(monitor) :
                        ( /\ ~in_frame(ReadElbereth, f)
                          /\ in_frame("You read: \"", f) \/ in_frame(NoObjects, f) ) =>
                            ewait_step(pc, f)
                              = [keys |-> <<"E">>, next |-> "ewait.engrave"]
                /\ pc \in {"ewait.engrave", "ewait.finger", "ewait.add",
                            "ewait.skip_more_write", "ewait.write"} =>
                     AllEnter(looked, Len(looked) - n)
                /\ pc = "ewait.engrave" => calls = << <<"E">> >>
                /\ pc = "ewait.finger" => calls = << <<"E">>, <<"-">> >>
                /\ pc = "ewait.add" => calls = << <<"E">>, <<"-">>, <<"n">> >>
                /\ pc = "ewait.skip_more_write" =>
                     /\ calls[n] = <<"C-m">>
                     /\ Engraves(calls, TRUE, n) \/ Engraves(calls, FALSE, n)
                /\ pc = "ewait.write" =>
                     /\ calls[n] = <<"Elbereth">>
                     /\ Engraves(calls, TRUE, n - 1) \/ Engraves(calls, FALSE, n - 1) )
    /\ [][ /\ pc = "ewait.look" /\ pc' = "ewait.engrave" =>
                  /\ ~in_frame(ReadElbereth, monitor'.tmux.prev_frame)
                  /\ \/ in_frame("You read: \"", monitor'.tmux.prev_frame)
                     \/ in_frame(NoObjects, monitor'.tmux.prev_frame)
           /\ pc = "ewait.engrave" => pc' = "ewait.finger" /\ Sends(<<"-">>)
           /\ pc = "ewait.finger" =>
                  ( pc' = "ewait.add"
                      <=> in_frame(AddToEngraving, monitor'.tmux.prev_frame) )
           /\ pc' = "ewait.add" => pc = "ewait.finger" /\ Sends(<<"n">>)
           /\ pc \in {"ewait.finger", "ewait.add", "ewait.skip_more_write"}
                /\ pc' # "ewait.add" =>
                  IF in_frame(MorePrompt, monitor'.tmux.prev_frame)
                  THEN pc' = "ewait.skip_more_write" /\ Sends(<<"C-m">>)
                  ELSE pc' = "ewait.write" /\ Sends(<<"Elbereth">>)
           /\ pc = "ewait.write" => pc' = "loop" /\ Sends(<<"C-m", ":">>)
         ]_vars

\* No engraving was found behind a prompt; the engraving was written with
\* the add-to-engraving prompt declined and one more prompt dismissed
C22_Witness ==
    /\ pc = "loop"
    /\ ran = <<"ewait">>
    /\ KeysSent(monitor) = << <<":">>, <<"C-m">>, <<"E">>, <<"-">>, <<"n">>, <<"C-m">>,
                              <<"Elbereth">>, <<"C-m", ":">> >>

ReadsStoredValues(f) ==
    /\ f.cont # NoCont =>
          /\ f.cont.turn = monitor.turn
          /\ f.cont.xplevel # NoneInt => f.cont.xplevel = monitor.xplevel
    /\ f.stat # NoStat => f.stat.charisma = monitor.charisma

\* C30: a step of a tick that changes a persisted field (the price
\* identifications with their called flags, the known items, charisma,
\* experience level, sucker, tourist) sets the dirty flag, or is the naming
\* step, whose tick sets it before it ends; once set the flag stays set to
\* the end of the tick; and a tick whose status parsing reads the stored
\* values does not set it.
C30_DirtyWhenPersistedChanges ==
    [][ TickStep =>
          /\ persistence_data(monitor') # persistence_data(monitor) =>
                monitor'.dirty \/ pc' = "dispatch_price_id.wait_chg"
          /\ pc = "dispatch_price_id.wait_chg" /\ pc' = "loop" => monitor'.dirty
          /\ ~StartsTick /\ monitor.dirty => monitor'.dirty
          /\ StartsTick /\ ReadsStoredValues(frame') /\ monitor'.dirty =>
                monitor.dirty /\ wrote' # "ok" ]_vars

\* The tick that typed the label of "old gloves" has ended: the called flag
\* changed and the dirty flag is set
C30_Witness ==
    /\ pc = "loop"
    /\ ran = <<"dispatch_price_id">>
    /\ "old gloves" \in DOMAIN monitor.price_id
    /\ monitor.price_id["old gloves"].item_called
    /\ monitor.dirty

(***************************************************************************)
(* priceid.py on its own (PriceSpec)                                       *)
(***************************************************************************)
\* The call of the price functions that has just returned
Returned(call) == pc = "returned" /\ ran # <<>> /\ ran[1].call = call

Near(list, b) == \E i \in 1..Len(list) : list[i] - b \in -1..1

\* C23: when guess_base_cost_buying is given the price a shop asks for an
\* item of catalog base price b (b times the charisma multiplier, times 4/3
\* for a sucker, rounded to an integer), with a charisma of 3 to 18 and the
\* sucker status known, one of the base costs it returns is within 1 of b.
C23_BuyingRecoversBase ==
    Returned("guess_base_cost_buying") => Near(ran[1].result, ran[1].base)

\* A sucker of charisma 6 is asked 350 for an
\* item of base price 175, and 175 is the first of the two guesses
C23_Witness ==
    /\ Returned("guess_base_cost_buying")
    /\ ran[1].base = 175 /\ ran[1].charisma = 6 /\ ran[1].sucker = "True"
    /\ ran[1].price = 350
    /\ ran[1].result = <<175, 131>>

\* Twice the distance of a from n / d is at most step
Nearest(a, n, d, step) ==
    /\ a % step = 0
    /\ 2 * (a * d - n) <= step * d
    /\ 2 * (n - a * d) <= step * d

\* C24: guess_base_cost_selling(1, sucker) is <<2, 2>> for both sucker values;
\* for every other price both values returned are multiples of 5 when the
\* price is at least 5 and multiples of 2 when it is below 5: the first is
\* the price times 2 (times 3 for a sucker), the second that value times 4/3,
\* each rounded to the nearest such multiple.
C24_SellingGuesses ==
    Returned("guess_base_cost_selling") =>
        LET price == ran[1].price
            full == price * (IF ran[1].sucker = "True" THEN 3 ELSE 2)
            step == IF price >= 5 THEN 5 ELSE 2
        IN  /\ Len(ran[1].result) = 2
            /\ IF price = 1 THEN ran[1].result = <<2, 2>>
               ELSE /\ Nearest(ran[1].result[1], full, 1, step)
                    /\ Nearest(ran[1].result[2], full * 4, 3, step)

\* A sucker is offered 3 for an item: 9 is as near to 8 as to 10, and 12 is
\* a multiple of 2
C24_Witness ==
    /\ Returned("guess_base_cost_selling")
    /\ ran[1].price = 3 /\ ran[1].sucker = "True"
    /\ ran[1].result = <<8, 12>>

\* find_price_candidates has returned for a wand bought at 150 with
\* charisma 11
WandAt150 ==
    /\ Returned("find_price_candidates")
    /\ ran[1].kind = "wand" /\ ran[1].price = 150 /\ ran[1].charisma = 11
    /\ ran[1].buying

\* C25: for a wand bought at 150 with charisma 11, find_price_candidates
\* returns exactly the catalog entries under wand base price 150 when the
\* sucker argument is None or False, and no entry at all when it is True
\* (the base costs guessed for a sucker are 112 and 84).
C25_WandAt150 ==
    WandAt150 =>
        ran[1].result = IF ran[1].sucker = "True" THEN <<>>
                        ELSE cost_names(COST_TABLES["wand"], 150)

C25_Witness ==
    /\ WandAt150
    /\ ran[1].sucker = "False"
    /\ ran[1].result = cost_names(COST_TABLES["wand"], 150)
    /\ Len(ran[1].result) > 1

\* C25 as stated: the entries under 150 are returned for every value of the
\* sucker argument.
C25_WandAt150AnySucker ==
    WandAt150 => ran[1].result = cost_names(COST_TABLES["wand"], 150)

\* C26: is_shk_greedy returns True only if the higher of the two selling
\* guesses is a base price of the kind's table and the lower is a base price
\* of no kind's table; it returns False if only the lower is a base price of
\* the kind's table; in every other case it returns None.
C26_GreedInference ==
    Returned("is_shk_greedy") =>
        LET guesses == guess_base_cost_selling(ran[1].price, ran[1].sucker = "True")
            table == COST_TABLES[ran[1].kind]
            higher == has_cost(table, guesses[2])
            lower == has_cost(table, guesses[1])
            greedy == higher /\ guesses[1] \notin BasePrices
            honest == lower /\ ~higher
        IN  /\ ran[1].result = <<"True">> => greedy
            /\ honest => ran[1].result = <<"False">>
            /\ ~greedy /\ ~honest => ran[1].result = <<"None">>

\* Every item of the list has an entry in ABBREV_DICT
all_in_dict(item_list) ==
    \A k \in 1..Len(item_list) : abbrev_get(ABBREV_DICT, item_list[k]) # <<>>

\* The length of the shortest dictionary forms of the items joined by "/"
RECURSIVE shortest_length(_)
shortest_length(item_list) ==
    IF item_list = <<>> THEN -1
    ELSE 1 + Len(abbrev_get(ABBREV_DICT, item_list[1])[4])
         + shortest_length(Tail(item_list))

\* The last attempt of the fallback: one character of every word
narrowest(item_list) ==
    fallback_join([k \in 1..Len(item_list) |-> capitalized_words(item_list[k])], 1)

\* C27: when every candidate (with its type name erased) has an entry in
\* ABBREV_DICT and the target length is at least the length of the shortest
\* forms joined by "/", the label abbreviate_items returns is no longer than
\* the target length; in every other case a label longer than the target
\* length is the fallback's narrowest attempt, one character of every word.
C27_LabelFitsBudget ==
    Returned("abbreviate_items") =>
        LET item_list == erase_types(ran[1].item_list)
            label == ran[1].result[1]
        IN  IF all_in_dict(item_list)
               /\ ran[1].target_length >= shortest_length(item_list)
            THEN Len(label) <= ran[1].target_length
            ELSE Len(label) > ran[1].target_length
                 => label = narrowest(item_list)

\* Three wands, all in the dictionary, fit into 11 characters only in their
\* shortest forms
C27_Witness ==
    /\ Returned("abbreviate_items")
    /\ ran[1].item_list = <<"wand of digging", "wand of enlightenment",
                            "wand of locking">>
    /\ all_in_dict(erase_types(ran[1].item_list))
    /\ ran[1].target_length = shortest_length(erase_types(ran[1].item_list))
    /\ ran[1].target_length = 11
    /\ ran[1].result = <<"Dig/Enl/Lok">>

(***************************************************************************)
(* TmuxFrame.parse_curses_panes on its own (BoxSpec)                       *)
(***************************************************************************)
Parsed == pc = "parsed" /\ ran # <<>> /\ ran[1].call = "parse_curses_panes"

\* C28: for a frame with two bordered rectangles that do not overlap,
\* parse_curses_panes returns exactly two strings, the interiors of the two
\* rectangles in the reading order of their top-left corners (row first,
\* then column); a rectangle strictly inside another is not returned as a
\* result of its own.
C28_TwoBoxesInReadingOrder ==
    Parsed =>
        LET a == ran[1].boxes[1]
            b == ran[1].boxes[2]
        IN  IF disjoint(a, b)
            THEN ran[1].result = <<box_content(ran[1].lines, a),
                                   box_content(ran[1].lines, b)>>
            ELSE ran[1].result = <<box_content(ran[1].lines, a)>>

\* The same when the first line of the frame is not empty and no rectangle
\* is blank inside
C28_OnFilledBoxes ==
    Parsed /\ ran[1].lines[1] # <<>>
           /\ not_blank(box_content(ran[1].lines, ran[1].boxes[1]))
           /\ not_blank(box_content(ran[1].lines, ran[1].boxes[2]))
    => LET a == ran[1].boxes[1]
           b == ran[1].boxes[2]
       IN  IF disjoint(a, b)
           THEN ran[1].result = <<box_content(ran[1].lines, a),
                                  box_content(ran[1].lines, b)>>
           ELSE ran[1].result = <<box_content(ran[1].lines, a)>>

\* Two filled rectangles below an empty first line
C28_EmptyFirstLine ==
    /\ Parsed
    /\ ran[1].lines[1] = <<>>
    /\ disjoint(ran[1].boxes[1], ran[1].boxes[2])
    /\ not_blank(box_content(ran[1].lines, ran[1].boxes[1]))
    /\ not_blank(box_content(ran[1].lines, ran[1].boxes[2]))
    /\ ran[1].result = <<>>
(***************************************************************************)
(* The tourist's sucker flag (TouristSpec)                                 *)
(***************************************************************************)
\* C31: while the tourist flag is true, a tick-start step that parses the
\* main status line leaves the sucker flag true when the experience level
\* is under 15 and false when it is above 15, whatever the flag was before
\* (a control word may have set it).
C31_TouristSuckerFollowsLevel ==
    [][ ( /\ StartsTick
          /\ monitor.tourist
          /\ monitor'.tmux.prev_frame.stat # NoStat ) =>
          /\ monitor'.tourist
          /\ monitor'.xplevel < 15 => monitor'.sucker
          /\ monitor'.xplevel > 15 => ~monitor'.sucker ]_vars

\* A tourist of level 14 whose sucker flag was false (as the file written
\* at the start of this tick records), and whose status line this tick
\* parsed: the flag is true again
C31_Witness ==
    /\ pc = "dispatch"
    /\ monitor.tourist
    /\ frame.stat # NoStat
    /\ monitor.xplevel = 14
    /\ monitor.sucker
    /\ wrote = "ok"
    /\ disk.exists
    /\ disk.xplevel = 14
    /\ ~disk.sucker

(***************************************************************************)
(* The frame of a tick, sync and keystrokes (Spec)                         *)
(***************************************************************************)
\* C32: when a tick reaches its handler checks, the frame that the death,
\* auto-engrave, wait-one-turn and control-word checks are given is the
\* cached frame that the purchase, sale and naming-prompt checks search,
\* also in a tick whose autosave attempt failed.
C32_OneFramePerTick ==
    pc = "dispatch" /\ monitor.state = "sync" => frame = monitor.tmux.prev_frame

\* C33: every send-keys call of a tick is made while the tracker is
\* SYNCED, and a step of a tick that finds and leaves the tracker UNSYNCED
\* sends nothing (the step that starts such a tick leaves no key sent).
C33_KeysOnlyWhileSynced ==
    [][ /\ \A i \in 1..Len(monitor'.tmux.sent) :
              monitor'.tmux.sent[i].state = "sync"
        /\ monitor.state = "init" /\ monitor'.state = "init" =>
              monitor'.tmux.sent = IF StartsTick THEN <<>> ELSE monitor.tmux.sent
      ]_vars

\* The autosave sent the save command and the confirmation, both while
\* SYNCED, and the tracker is UNSYNCED when the handler checks are reached
C33_Witness ==
    /\ pc = "dispatch"
    /\ monitor.state = "init"
    /\ KeysSent(monitor) = << <<"S">>, <<"y">> >>
    /\ \A i \in 1..2 : monitor.tmux.sent[i].state = "sync"

\* C34: between ticks the tracker is SYNCED exactly when the stored turn
\* is known; a step makes the turn known only while acquiring sync and
\* unknown only while losing it.
C34_SyncedIffTurnKnown ==
    [][ /\ pc' = "loop" =>
              (monitor'.state = "sync" <=> monitor'.turn # NoneInt)
        /\ monitor.turn = NoneInt /\ monitor'.turn # NoneInt =>
              monitor.state = "init" /\ monitor'.state = "sync"
        /\ monitor.turn # NoneInt /\ monitor'.turn = NoneInt =>
              monitor.state = "sync" /\ monitor'.state = "init" ]_vars

\* A tick whose autosave was confirmed has ended: the tracker is UNSYNCED
\* and the turn unknown
C34_Witness ==
    /\ pc = "loop"
    /\ Typed(monitor, <<"y">>)
    /\ monitor.state = "init"
    /\ monitor.turn = NoneInt

\* C35: in a tick in which the death handler acts, no key has been sent
\* to the pane (in particular no save command of the autosave).
C35_DeathBeforeAnyKey ==
    ran = <<"death">> => monitor.tmux.sent = <<>>

(***************************************************************************)
(* The wait-one-turn protocol terminates (EwaitSpec)                       *)
(***************************************************************************)
\* The positions of ewait at which it waits for the screen to change
EwaitPositions ==
    { "ewait.look", "ewait.skip_more_rest", "ewait.rest", "ewait.look_again",
      "ewait.engrave", "ewait.finger", "ewait.add", "ewait.skip_more_write",
      "ewait.write" }

\* None of the messages the top of the loop looks for is on the screen
Unrecognized(f) ==
    /\ ~in_frame("You read: \"", f)
    /\ ~in_frame(NoObjects, f)
    /\ ~in_frame(MorePrompt, f)

\* C36: when every wait of the protocol returns and the game shows at most
\* MaxMore --More-- prompts, a tick that entered the protocol completes;
\* a screen at the top of the loop that shows none of the recognized
\* messages ends the protocol with no further key.
C36_EwaitTerminates ==
    /\ (pc \in EwaitPositions) ~> (pc = "loop")
    /\ [] ( pc = "ewait.look" =>
              \A f \in EwaitChanged(monitor) :
                 Unrecognized(f) =>
                    ewait_step(pc, f) = [keys |-> << >>, next |-> ""] )
    /\ [][ pc = "ewait.look" /\ pc' = "loop" =>
              monitor'.tmux.sent = monitor.tmux.sent ]_vars

\* A --More-- prompt was dismissed at the top of the loop, then a screen
\* with none of the messages ended the protocol and the tick
C36_Witness ==
    /\ pc = "loop"
    /\ ran = <<"ewait">>
    /\ KeysSent(monitor) = << <<":">>, <<"C-m">> >>

(***************************************************************************)
(* abbreviate_items: the dictionary steps and fine tuning (AbbrevSpec)     *)
(***************************************************************************)
\* C37: in the item lists that steps 1 to 4 of the dictionary loop build
\* for the candidates of a call, an item without an entry in ABBREV_DICT
\* has its step-0 form (the words capitalized and joined without spaces).
C37_AbsentKeepsStepZero ==
    Returned("abbreviate_items") =>
        LET item_list == erase_types(ran[1].item_list)
        IN  \A i \in 1..4, k \in 1..Len(item_list) :
               abbrev_get(ABBREV_DICT, item_list[k]) = <<>> =>
                  dict_step_items(item_list, i)[k] = cap_join(item_list[k])

\* The (item, short) pairs in the order in which fine tuning considers
\* them, for a call whose dictionary loop stopped at a step after step 0;
\* <<>> for any other call
FineTuningOrder ==
    LET item_list == erase_types(ran[1].item_list)
        plain == str_join("/", item_list)
        loop == dict_loop(item_list, ran[1].target_length, 0, plain)
    IN  IF /\ Len(plain) > ran[1].target_length
           /\ loop.kind # "return"
           /\ ~loop.no_short
           /\ loop.min_step > 0
        THEN ratio_sorted([k \in 1..Len(item_list) |->
                              [item |-> item_list[k], short |-> loop.items[k]]])
        ELSE <<>>

\* C38: fine tuning considers the items in descending order of original
\* length / current length, and the label it returns is no longer than the
\* target length.
C38_MostCompressedFirst ==
    Returned("abbreviate_items") =>
        /\ \A a, b \in 1..Len(FineTuningOrder) :
              a < b => ~ratio_less(FineTuningOrder[a], FineTuningOrder[b])
        /\ FineTuningOrder # <<>> =>
              Len(ran[1].result[1]) <= ran[1].target_length

\* In every call fine tuning considers the items in ascending order of
\* original length / current length, and its label fits
C38_LeastCompressedFirst ==
    Returned("abbreviate_items") =>
        /\ \A a, b \in 1..Len(FineTuningOrder) :
              a < b => ~ratio_less(FineTuningOrder[b], FineTuningOrder[a])
        /\ FineTuningOrder # <<>> =>
              Len(ran[1].result[1]) <= ran[1].target_length

(***************************************************************************)
(* parse_curses_panes: every box of the frame (BoxSpec)                    *)
(***************************************************************************)
\* The rectangles of the frame with the four corner characters at their
\* corners and valid characters along their four borders
FrameBoxes(lines) ==
    { box \in [r1 : 1..Len(lines), r2 : 1..Len(lines),
               c1 : 1..max_width(lines), c2 : 1..max_width(lines)] :
        /\ box.r1 < box.r2
        /\ box.c1 < box.c2
        /\ padded(lines, box.r1, box.c1) = TopLeft
        /\ padded(lines, box.r1, box.c2) = TopRight
        /\ padded(lines, box.r2, box.c1) = BottomLeft
        /\ padded(lines, box.r2, box.c2) = BottomRight
        /\ border_valid(lines, box.r1, box.c1, box.r2, box.c2) }

\* The boxes of the frame that are not blank inside and not strictly
\* inside another box of the frame
OutermostFilled(lines) ==
    { box \in FrameBoxes(lines) :
        /\ not_blank(box_content(lines, box))
        /\ \A other \in FrameBoxes(lines) : ~is_nested(other, box) }

\* C39: the interior of every box of the frame that is not blank inside and
\* not strictly inside another box is among the panes returned, wherever
\* the box lies (also below an empty first line).
C39_EveryBoxReturned ==
    Parsed =>
        \A box \in OutermostFilled(ran[1].lines) :
            \E i \in 1..Len(ran[1].result) :
                ran[1].result[i] = box_content(ran[1].lines, box)

\* The same for the frames whose first line is not empty, where moreover
\* nothing else is returned
C39_BelowNonEmptyFirstLine ==
    Parsed /\ ran[1].lines[1] # <<>> =>
        /\ \A box \in OutermostFilled(ran[1].lines) :
              \E i \in 1..Len(ran[1].result) :
                  ran[1].result[i] = box_content(ran[1].lines, box)
        /\ Len(ran[1].result) = Cardinality(OutermostFilled(ran[1].lines))


=============================================================================
